---------------------------- MODULE Spec2Model ----------------------------
(***************************************************************************)
(* selenium_tkit: the reusable-session attach/recreate protocol of         *)
(* ReusableChrome (chrome.py), the polling waits of CustomWebDriver        *)
(* (custom_webdriver.py) and ReusableFirefox.begin (firefox.py).           *)
(*                                                                         *)
(* The program is single-threaded.  begin() is modelled statement group by *)
(* statement group (pc), so that the operating system, the browser and the *)
(* driver process, which are outside the program, can change between two   *)
(* calls the program makes to them.                                        *)
(***************************************************************************)
EXTENDS Naturals, Sequences, FiniteSets

(***************************************************************************)
(* Bounds of the model.                                                    *)
(***************************************************************************)
\* attach_retries is drawn from 0..MaxRetries
MaxRetries == 2
\* how many times the environment may disturb a running begin()
MaxEnvEvents == 1
\* the timeout of a polling wait is drawn from 0..MaxTimeout seconds
MaxTimeout == 2
\* a command sent to the browser takes 0..MaxLatency seconds
MaxLatency == 1
\* how many polls of a call may each take less than a second
MaxFastPolls == 2
\* how many times the page may change what a selector matches during a call
MaxDomChanges == 2

(***************************************************************************)
(* Program constants.                                                      *)
(***************************************************************************)
\* chrome.py:36  port: int = 65000
DefaultPort == 65000
\* chrome.py:309  port: int = 64900, the port of CreateChrome: an id.json
\* left by another setup may name it, and no reusable driver listens on it
CreateChromePort == 64900

(***************************************************************************)
(* Python values that occur in the handle: None, a str, a session id, an   *)
(* endpoint URL.  One record shape, so that any two values compare.        *)
(***************************************************************************)
None == [t |-> "None", n |-> 0]
EmptyStr == [t |-> "str", n |-> 0]
Sid(k) == [t |-> "session", n |-> k]
\* chrome.py:213  f"http://127.0.0.1:{self.port}"
Url(port) == [t |-> "http://127.0.0.1:", n |-> port]

\* Python truthiness of a value: None and "" are false
Truthy(v) == v # None /\ v # EmptyStr

(***************************************************************************)
(* A dict is a set of key/value items with distinct keys.                  *)
(***************************************************************************)
EmptyDict == {}
HasKey(d, k) == \E e \in d : e.k = k
\* dict.get(key, None)
DictGet(d, k) == IF HasKey(d, k) THEN (CHOOSE e \in d : e.k = k).v ELSE None
Keys(d) == {e.k : e \in d}

(***************************************************************************)
(* The text of the id.json file.  kind "invalid" is text that is not JSON  *)
(* (the empty file), "object" a JSON object, "other" any other JSON value  *)
(* (a list, a string, a number, null).                                     *)
(***************************************************************************)
InvalidText == [kind |-> "invalid", obj |-> EmptyDict]
OtherJsonText == [kind |-> "other", obj |-> EmptyDict]
\* json.dump(d, json_file, indent=4)
json_dump(d) == [kind |-> "object", obj |-> d]
\* json.load(json_file): the parsed value, or the error it raises
json_load(text) ==
    CASE text.kind = "object" -> [ok |-> TRUE, isdict |-> TRUE, val |-> text.obj]
      [] text.kind = "other" -> [ok |-> TRUE, isdict |-> FALSE, val |-> EmptyDict]
      [] OTHER -> [ok |-> FALSE, isdict |-> FALSE, val |-> EmptyDict]

(***************************************************************************)
(* Process names, as token sequences, and Python's `pattern in name`.      *)
(***************************************************************************)
ChromedriverExe == <<"chrome", "driver", ".exe">>
ChromeExe == <<"chrome", ".exe">>
NotepadExe == <<"notepad", ".exe">>
\* chrome.py:103  "chromedriver.exe" in p.name()
DriverPattern == <<"chrome", "driver", ".exe">>
\* chrome.py:111, 116  "chrome" in p.name()
FamilyPattern == <<"chrome">>

StrIn(pat, name) ==
    \E i \in 1..(Len(name) + 1) :
        /\ i + Len(pat) - 1 <= Len(name)
        /\ SubSeq(name, i, i + Len(pat) - 1) = pat

\* a chromedriver process listening on `port`, built for browser version `ver`
DriverProc(port, ver) == [name |-> ChromedriverExe, port |-> port, ver |-> ver]
\* the browser a driver on `port` started for its sessions
BrowserProc(port) == [name |-> ChromeExe, port |-> port, ver |-> "-"]
\* a chrome the user started by hand, and a process of another family
UserChrome == [name |-> ChromeExe, port |-> 0, ver |-> "-"]
Notepad == [name |-> NotepadExe, port |-> 0, ver |-> "-"]

Callers == {1, 2}

VARIABLES
    self,       \* per caller: the fields of its ReusableChrome and the locals of begin()
    hist,       \* per caller: what the running begin() has done so far
    store,      \* the id.json file: [exists, text]
    procs,      \* the operating system's process table
    sessions,   \* the session ids the running driver accepts
    reachable,  \* whether driver and browser answer commands
    dirState,   \* the user-data-dir: "absent", "free" or "locked" (held open)
    nextSid,    \* the next session id the driver hands out
    envEvents,  \* disturbances by the environment so far
    start,      \* the environment as it was when begin() was called
    wait,       \* a call of wait_page_state of CustomWebDriver, and its clock
    nav,        \* a call of open_url, and the browser it navigates
    dl,         \* a call of wait_all_downloads_end
    op          \* a call of another operation of CustomWebDriver

\* what the session reattachment works on, and what the polling waits work on
beginVars == <<self, hist, store, procs, sessions, reachable, dirState, nextSid,
               envEvents, start>>
waitVars == <<wait, nav, dl, op>>
vars == <<beginVars, waitVars>>

(***************************************************************************)
(* ChromeOptions: None, or the list of arguments.                          *)
(***************************************************************************)
LogLevelArg == [key |-> "log-level", val |-> "3"]
UserDataDirArg == [key |-> "user-data-dir", val |-> "data-dir"]
NoOptions == [none |-> TRUE, args |-> <<>>]
Options(args) == [none |-> FALSE, args |-> args]
OptionChoices ==
    {NoOptions, Options(<<LogLevelArg>>), Options(<<LogLevelArg, UserDataDirArg>>)}
HasUserDataDir(options) ==
    \E i \in 1..Len(options.args) : options.args[i].key = "user-data-dir"

(***************************************************************************)
(* The object after __init__ (chrome.py:81-98) and before begin().         *)
(* driver_path is the version of the driver binary the manager installed:  *)
(* "match" fits the installed browser, "old" does not.                     *)
(***************************************************************************)
NewObject(retries, options, driver) ==
    [ driver_path |-> driver,
      port |-> DefaultPort,
      options |-> options,
      attach_retries |-> retries,
      last_session_id |-> None,
      last_command_executor |-> None,
      session_id |-> None,
      command_executor |-> None,
      tentativa_atual |-> 0,
      attached |-> FALSE,
      via |-> "-",
      pc |-> "start",
      result |-> "-" ]

\* a caller that never calls begin()
Absent == [NewObject(0, NoOptions, "match") EXCEPT !.pc = "off"]

NoHistory ==
    [ created |-> FALSE,     \* begin() created the file
      loaded |-> FALSE,      \* the file was loaded without an error
      loadedHandle |-> <<None, None>>,
      iterations |-> 0,      \* loop bodies entered
      attaches |-> 0,        \* calls of __attach
      reuse |-> 0,           \* calls of __attach with the recorded session id
      connects |-> 0,        \* remote connections opened
      checks |-> 0,          \* reads of any_chrome_process_exists
      kills |-> 0,           \* calls of end_all_driver_processes
      launches |-> 0,        \* calls of __create_new_chrome
      successes |-> 0,       \* calls of __attach that returned True
      notStarted |-> 0,      \* launches whose process did not stay
      stale |-> FALSE,       \* __attach saw InvalidSessionIdException
      lastEnd |-> [called |-> FALSE, before |-> {}, after |-> {}, ret |-> FALSE],
      raisedAt |-> "-" ]     \* where an exception left begin()

(***************************************************************************)
(* The id.json files begin() may find.                                     *)
(***************************************************************************)
Item(k, v) == [k |-> k, v |-> v]
Handle(ce, sid) == {Item("command_executor", ce), Item("session_id", sid)}
ExtraItem == Item("comment", EmptyStr)
StoredObjects ==
    { EmptyDict,
      {Item("session_id", Sid(1))},
      Handle(Url(DefaultPort), Sid(1)),
      Handle(Url(DefaultPort), Sid(1)) \cup {ExtraItem},
      Handle(Url(CreateChromePort), Sid(1)),
      Handle(Url(DefaultPort), EmptyStr) }
StoreChoices ==
    {[exists |-> FALSE, text |-> InvalidText]}
        \cup {[exists |-> TRUE, text |-> t] :
                 t \in {InvalidText, OtherJsonText} \cup {json_dump(d) : d \in StoredObjects}}

(***************************************************************************)
(* The process tables and sessions begin() may find: no driver, a driver   *)
(* whose browser was closed, a driver with the browser of session 1.       *)
(***************************************************************************)
EnvChoices ==
    { [procs |-> {Notepad} \cup u \cup d.procs, sessions |-> d.sessions] :
        u \in {{}, {UserChrome}},
        d \in { [procs |-> {}, sessions |-> {}],
                [procs |-> {DriverProc(DefaultPort, "match")}, sessions |-> {}],
                [procs |-> {DriverProc(DefaultPort, "match"), BrowserProc(DefaultPort)},
                 sessions |-> {1}] } }

\* the operation is not being called
Idle == [pc |-> "off"]

\* no polling wait is running
NoWait ==
    [ pc |-> "off", state |-> "complete", timeout |-> 0, now |-> 0,
      timer |-> 0, script_timer |-> 0, page |-> "complete", page_state |-> "-",
      polls |-> 0, matched |-> FALSE, result |-> "-" ]

Init ==
    /\ \E r \in 0..MaxRetries, o \in OptionChoices, d \in {"old", "match"} :
          self = [c \in Callers |-> IF c = 1 THEN NewObject(r, o, d) ELSE Absent]
    /\ hist = [c \in Callers |-> NoHistory]
    /\ store \in StoreChoices
    /\ \E e \in EnvChoices : procs = e.procs /\ sessions = e.sessions
    /\ reachable = TRUE
    /\ dirState \in {"absent", "free", "locked"}
    /\ (\A c \in Callers : ~HasUserDataDir(self[c].options)) => dirState = "absent"
    /\ nextSid = 2
    /\ envEvents = 0
    /\ start = [store |-> store, procs |-> procs, sessions |-> sessions,
                nextSid |-> nextSid, self |-> self]
    /\ wait = NoWait
    /\ nav = Idle /\ dl = Idle /\ op = Idle

(***************************************************************************)
(* The collaborators: process registry and remote automation endpoint.     *)
(***************************************************************************)
\* chrome.py:100-106
any_chrome_process_exists == \E p \in procs : StrIn(DriverPattern, p.name)

\* the processes the first loop of end_all_driver_processes hands to taskkill
Matched(ps) == {p \in ps : StrIn(FamilyPattern, p.name)}

\* mutant: the second loop looks for the driver's name only
EndAllReturn_DriverOnly(ps) == ~(\E p \in ps : StrIn(DriverPattern, p.name))

\* the value end_all_driver_processes returns: its second loop over a process table
EndAllReturn(ps) == ~(\E p \in ps : StrIn(FamilyPattern, p.name))

DriversAt(ps, url) == {p \in ps : p.name = ChromedriverExe /\ Url(p.port) = url}
DriverAlive(ps) == \E p \in ps : p.name = ChromedriverExe
BrowserAlive(ps) == \E p \in ps : p.name = ChromeExe /\ p.port # 0

\* taskkill /f /t /im <name> for every matched process: it works on an image
\* name, so the processes of one name end together or, when taskkill fails
\* for that name, survive together
SurvivorChoices(ps) ==
    {{p \in Matched(ps) : p.name \in names} : names \in SUBSET {p.name : p \in Matched(ps)}}

\* chrome.py:110-113 with `survivors` left behind.  A session dies with its
\* driver or its browser.
KillEffect(survivors) ==
    /\ procs' = (procs \ Matched(procs)) \cup survivors
    /\ sessions' = IF DriverAlive(procs') /\ BrowserAlive(procs') THEN sessions ELSE {}

\* what a command sent for session `sid` to `url` meets
CommandOutcome(url, sid) ==
    IF DriversAt(procs, url) = {} THEN "MaxRetryError"
    ELSE IF ~reachable THEN "WebDriverException"
    ELSE IF sid.t # "session" \/ sid.n \notin sessions THEN "InvalidSessionIdException"
    ELSE "ok"

\* what webdriver.Remote(command_executor=url, options=options) meets
ConnectOutcome(url, options) ==
    IF DriversAt(procs, url) = {} THEN "MaxRetryError"
    ELSE IF ~reachable THEN "WebDriverException"
    ELSE IF (CHOOSE p \in DriversAt(procs, url) : TRUE).ver # "match"
        THEN "SessionNotCreatedException(version)"
    ELSE IF HasUserDataDir(options) /\ dirState = "locked"
        THEN "SessionNotCreatedException"
    ELSE "ok"

Set(c, rec) == self' = [self EXCEPT ![c] = rec]
Note(c, rec) == hist' = [hist EXCEPT ![c] = rec]
Raise(c, where) ==
    /\ Set(c, [self[c] EXCEPT !.pc = "done", !.result = "raised"])
    /\ Note(c, [hist[c] EXCEPT !.raisedAt = where])

(***************************************************************************)
(* ReusableChrome.begin                                                    *)
(***************************************************************************)
\* mutant: the file is created empty, without the json.dump
CreatedFile_Blank == [exists |-> TRUE, text |-> InvalidText]

\* chrome.py:140-142: the file begin() creates
CreatedFile == [exists |-> TRUE, text |-> json_dump(EmptyDict)]

\* chrome.py:137-143
BeginCreateStore(c) ==
    /\ self[c].pc = "start"
    /\ store' = IF ~store.exists THEN CreatedFile ELSE store
    /\ Set(c, [self[c] EXCEPT !.pc = "load"])
    /\ Note(c, [hist[c] EXCEPT !.created = ~store.exists])
    /\ UNCHANGED <<procs, sessions, reachable, dirState, nextSid, envEvents, start, waitVars>>

\* mutant: json.load without the except clause
LoadIds_NoExcept(text) ==
    LET r == json_load(text)
    IN  IF ~r.ok \/ ~r.isdict THEN [raises |-> TRUE, ids |-> EmptyDict]
        ELSE [raises |-> FALSE, ids |-> r.val]

\* chrome.py:147-151: chrome_ids, or "AttributeError" when .get has no dict
LoadIds(text) ==
    LET r == json_load(text)
    IN  IF ~r.ok THEN [raises |-> FALSE, ids |-> EmptyDict]
        ELSE IF ~r.isdict THEN [raises |-> TRUE, ids |-> EmptyDict]
        ELSE [raises |-> FALSE, ids |-> r.val]

\* chrome.py:145-156
BeginLoad(c) ==
    /\ self[c].pc = "load"
    /\ LET l == LoadIds(store.text)
       IN  IF l.raises
           THEN Raise(c, "load")
           ELSE /\ Set(c, [self[c] EXCEPT
                        !.last_session_id = DictGet(l.ids, "session_id"),
                        !.last_command_executor = DictGet(l.ids, "command_executor"),
                        !.pc = "loop"])
                /\ Note(c, [hist[c] EXCEPT
                        !.loaded = TRUE,
                        !.loadedHandle = <<DictGet(l.ids, "command_executor"),
                                           DictGet(l.ids, "session_id")>>])
    /\ UNCHANGED <<store, procs, sessions, reachable, dirState, nextSid, envEvents, start, waitVars>>

\* mutant: the reuse attempt is made without looking for a driver process
CanReuse_NoProcessCheck(s) ==
    Truthy(s.last_command_executor) /\ Truthy(s.last_session_id)

\* chrome.py:165: the condition of the reuse attempt
CanReuse(s) ==
    Truthy(s.last_command_executor) /\ Truthy(s.last_session_id)
        /\ any_chrome_process_exists

\* mutant: a handle is written although no attach succeeded
Exhausted_Persists(s) == [s EXCEPT !.pc = "persist"]

\* chrome.py:177-179: the else clause of the loop
Exhausted(s) == [s EXCEPT !.pc = "done", !.result = "False"]

\* chrome.py:160-169 and 177-179: the loop head, and the reuse decision
BeginLoop(c) ==
    /\ self[c].pc = "loop"
    /\ LET s == self[c]
           h == hist[c]
           read == IF Truthy(s.last_command_executor) /\ Truthy(s.last_session_id)
                   THEN 1 ELSE 0
       IN  IF s.tentativa_atual >= s.attach_retries
           THEN /\ Set(c, Exhausted(s))
                /\ UNCHANGED hist
           ELSE IF CanReuse(s)
           THEN /\ Set(c, [s EXCEPT !.attached = FALSE, !.via = "reuse", !.pc = "att_check"])
                /\ Note(c, [h EXCEPT !.iterations = @ + 1, !.attaches = @ + 1,
                                     !.checks = @ + 1, !.reuse = @ + 1])
           ELSE /\ Set(c, [s EXCEPT !.attached = FALSE, !.pc = "kill"])
                /\ Note(c, [h EXCEPT !.iterations = @ + 1, !.checks = @ + read])
    /\ UNCHANGED <<store, procs, sessions, reachable, dirState, nextSid, envEvents, start, waitVars>>

\* a finished call of end_all_driver_processes: the process table it found,
\* the one it left, the value it returned
EndAllCall(before, after) ==
    [called |-> TRUE, before |-> before, after |-> after, ret |-> EndAllReturn(after)]
NoEndAllCall == [called |-> FALSE, before |-> {}, after |-> {}, ret |-> FALSE]

\* mutant: begin() gives up when end_all_driver_processes returned False
AfterKill_AbortOnSurvivor(s, ret) ==
    IF ret THEN [s EXCEPT !.pc = "launch"] ELSE [s EXCEPT !.pc = "done", !.result = "False"]

\* chrome.py:170-171: the value end_all_driver_processes returned is dropped
AfterKill(s, ret) == [s EXCEPT !.pc = "launch"]

\* chrome.py:170  self.end_all_driver_processes()
BeginKill(c) ==
    /\ self[c].pc = "kill"
    /\ \E survivors \in SurvivorChoices(procs) : KillEffect(survivors)
    /\ Set(c, AfterKill(self[c], EndAllReturn(procs')))
    /\ Note(c, [hist[c] EXCEPT !.kills = @ + 1, !.lastEnd = EndAllCall(procs, procs')])
    /\ UNCHANGED <<store, reachable, dirState, nextSid, envEvents, start, waitVars>>

\* chrome.py:209-211: Popen of the driver binary on self.port.  The process
\* stays when it started and the port was free.
Launched(s, started) ==
    IF started /\ DriversAt(procs, Url(s.port)) = {}
    THEN procs \cup {DriverProc(s.port, s.driver_path)}
    ELSE procs

\* mutant: the endpoint of the file is not replaced
AfterLaunch_KeepsExecutor(s) == [s EXCEPT !.last_session_id = None]

\* mutant: the session id of the file is not reset
AfterLaunch_KeepsSession(s) == [s EXCEPT !.last_command_executor = Url(s.port)]

\* chrome.py:213-216: what __create_new_chrome leaves in the object
AfterLaunch(s) ==
    [s EXCEPT !.last_command_executor = Url(s.port), !.last_session_id = None]

\* chrome.py:171-172  self.__create_new_chrome(); attached = self.__attach()
BeginLaunch(c) ==
    /\ self[c].pc = "launch"
    /\ \E started \in BOOLEAN :
          /\ procs' = Launched(self[c], started)
          /\ Note(c, [hist[c] EXCEPT !.launches = @ + 1, !.attaches = @ + 1,
                                     !.notStarted = @ + (IF started THEN 0 ELSE 1)])
    /\ Set(c, [AfterLaunch(self[c]) EXCEPT !.via = "new", !.pc = "att_check"])
    /\ UNCHANGED <<store, sessions, reachable, dirState, nextSid, envEvents, start, waitVars>>

\* mutant: no break after a successful attach
AfterAttach_NoBreak(s, attached) ==
    IF ~attached /\ s.via = "reuse" THEN [s EXCEPT !.attached = FALSE, !.pc = "kill"]
    ELSE [s EXCEPT !.attached = attached, !.tentativa_atual = @ + 1, !.pc = "loop"]

\* chrome.py:169 and 174-176: where begin() goes when __attach returned
\* `attached` to the attempt `via`
AfterAttach(s, attached) ==
    IF attached THEN [s EXCEPT !.attached = TRUE, !.pc = "persist"]
    ELSE IF s.via = "reuse" THEN [s EXCEPT !.attached = FALSE, !.pc = "kill"]
    ELSE [s EXCEPT !.attached = FALSE, !.tentativa_atual = @ + 1, !.pc = "loop"]

\* __attach returns `attached`, leaving the object as `s`
AttachReturn(c, s, attached, h) ==
    /\ Set(c, AfterAttach(s, attached))
    /\ Note(c, [h EXCEPT !.successes = @ + (IF attached THEN 1 ELSE 0)])

\* mutant: the new handle is merged into the object the file held
Persisted_Merged(s) ==
    [exists |-> TRUE,
     text |-> json_dump({e \in store.text.obj : e.k \notin {"command_executor", "session_id"}}
                            \cup {Item("command_executor", s.command_executor),
                                  Item("session_id", s.session_id)})]

\* chrome.py:183-189: the handle begin() writes
Persisted(s) ==
    [exists |-> TRUE,
     text |-> json_dump({Item("command_executor", s.command_executor),
                         Item("session_id", s.session_id)})]

\* chrome.py:181-193
BeginPersist(c) ==
    /\ self[c].pc = "persist"
    /\ store' = Persisted(self[c])
    /\ Set(c, [self[c] EXCEPT !.pc = "done", !.result = "True"])
    /\ UNCHANGED <<hist, procs, sessions, reachable, dirState, nextSid, envEvents, start, waitVars>>

(***************************************************************************)
(* ReusableChrome.__attach                                                 *)
(***************************************************************************)
\* mutant: __attach goes on without looking for a process
AttachCheck_Unchecked(c) ==
    /\ self[c].pc = "att_check"
    /\ Set(c, [self[c] EXCEPT !.pc = "att_options"])
    /\ Note(c, [hist[c] EXCEPT !.checks = @ + 1])
    /\ UNCHANGED <<store, procs, sessions, reachable, dirState, nextSid, envEvents, start, waitVars>>

\* chrome.py:222-226
AttachCheck(c) ==
    /\ self[c].pc = "att_check"
    /\ IF any_chrome_process_exists
       THEN /\ Set(c, [self[c] EXCEPT !.pc = "att_options"])
            /\ Note(c, [hist[c] EXCEPT !.checks = @ + 1])
       ELSE AttachReturn(c, self[c], FALSE, [hist[c] EXCEPT !.checks = @ + 1])
    /\ UNCHANGED <<store, procs, sessions, reachable, dirState, nextSid, envEvents, start, waitVars>>

\* the index of the first argument with "user-data-dir" in it, 0 if none
FirstUserDataDir(args) ==
    IF \E i \in 1..Len(args) : args[i].key = "user-data-dir"
    THEN CHOOSE i \in 1..Len(args) :
            /\ args[i].key = "user-data-dir"
            /\ \A j \in 1..(i - 1) : args[j].key # "user-data-dir"
    ELSE 0

\* mutant: the probe fails for every directory that exists
RenameFails_Exists(dir) == dir # "absent"

\* os.rename(data_dir, data_dir) raises OSError when the directory is held open
RenameFails(dir) == dir = "locked"

\* mutant: the argument is never removed
StripUserDataDir_Never(options, dir) == options

\* chrome.py:230-246: the options __attach connects with
StripUserDataDir(options, dir) ==
    LET i == FirstUserDataDir(options.args)
    IN  IF ~options.none /\ i # 0 /\ dir # "absent" /\ RenameFails(dir)
        THEN Options(SubSeq(options.args, 1, i - 1)
                        \o SubSeq(options.args, i + 1, Len(options.args)))
        ELSE options

AttachOptions(c) ==
    /\ self[c].pc = "att_options"
    /\ Set(c, [self[c] EXCEPT !.options = StripUserDataDir(@, dirState),
                              !.pc = "att_connect"])
    /\ UNCHANGED <<hist, store, procs, sessions, reachable, dirState, nextSid,
                   envEvents, start, waitVars>>

\* mutant: the driver binary is left as it was
Resolved_Kept(s) == s

\* chrome.py:260-262: ChromeDriverManager installs the driver that fits the
\* browser whose version the error message names
Resolved(s) == [s EXCEPT !.driver_path = "match"]

\* mutant: only WebDriverException is caught
ConnectCaught_NoMaxRetry == {"WebDriverException"}

\* chrome.py:264: the errors of the connection answered by ending all processes
ConnectCaught == {"MaxRetryError", "WebDriverException"}

\* chrome.py:250-267
AttachConnect(c) ==
    /\ self[c].pc = "att_connect"
    /\ LET s == self[c]
           url == s.last_command_executor
           out == ConnectOutcome(url, s.options)
           h == [hist[c] EXCEPT !.connects = @ + 1]
           bound == [s EXCEPT !.command_executor = url, !.session_id = None]
       IN  CASE out = "ok" ->
                  /\ sessions' = sessions \cup {nextSid}
                  /\ procs' = procs \cup {BrowserProc(url.n)}
                  /\ nextSid' = nextSid + 1
                  /\ Set(c, [bound EXCEPT !.session_id = Sid(nextSid), !.pc = "att_rebind"])
                  /\ Note(c, h)
             [] out = "SessionNotCreatedException(version)" ->
                  /\ AttachReturn(c, Resolved(bound), FALSE, h)
                  /\ UNCHANGED <<procs, sessions, nextSid>>
             [] out = "SessionNotCreatedException" ->
                  /\ AttachReturn(c, bound, FALSE, h)
                  /\ UNCHANGED <<procs, sessions, nextSid>>
             [] out \in ConnectCaught ->
                  /\ \E survivors \in SurvivorChoices(procs) : KillEffect(survivors)
                  /\ AttachReturn(c, bound, FALSE,
                        [h EXCEPT !.kills = @ + 1, !.lastEnd = EndAllCall(procs, procs')])
                  /\ UNCHANGED nextSid
             [] OTHER ->
                  /\ Set(c, [bound EXCEPT !.pc = "done", !.result = "raised"])
                  /\ Note(c, [h EXCEPT !.raisedAt = "connect"])
                  /\ UNCHANGED <<procs, sessions, nextSid>>
    /\ UNCHANGED <<store, reachable, dirState, envEvents, start, waitVars>>

\* mutant: the session the connection created is left open
Discarded_None(ss, sid) == ss

\* mutant: closing the window of the new session ends every session
Discarded_All(ss, sid) == {}

\* chrome.py:274: self.close() on the only window of the session the
\* connection created ends that session
Discarded(ss, sid) == ss \ {sid.n}

\* chrome.py:271-275
AttachRebind(c) ==
    /\ self[c].pc = "att_rebind"
    /\ LET s == self[c]
       IN  IF s.last_session_id = None
           THEN /\ Set(c, [s EXCEPT !.pc = "att_validate"])
                /\ UNCHANGED <<hist, procs, sessions>>
           ELSE IF CommandOutcome(s.command_executor, s.session_id) # "ok"
           THEN /\ Raise(c, "close")
                /\ UNCHANGED <<procs, sessions>>
           ELSE /\ sessions' = Discarded(sessions, s.session_id)
                /\ procs' = IF sessions' = {} THEN procs \ {BrowserProc(s.command_executor.n)}
                            ELSE procs
                /\ Set(c, [s EXCEPT !.session_id = s.last_session_id, !.pc = "att_validate"])
                /\ UNCHANGED hist
    /\ UNCHANGED <<store, reachable, dirState, nextSid, envEvents, start, waitVars>>

\* chrome.py:277-288
AttachValidate(c) ==
    /\ self[c].pc = "att_validate"
    /\ LET s == self[c]
           out == CommandOutcome(s.command_executor, s.session_id)
       IN  CASE out = "ok" ->
                  /\ Set(c, [s EXCEPT !.pc = "att_wait"])
                  /\ UNCHANGED hist
             [] out = "InvalidSessionIdException" ->
                  AttachReturn(c, s, FALSE, [hist[c] EXCEPT !.stale = TRUE])
             [] out = "WebDriverException" ->
                  AttachReturn(c, s, FALSE, hist[c])
             [] OTHER -> Raise(c, "window_handles")
    /\ UNCHANGED <<store, procs, sessions, reachable, dirState, nextSid, envEvents, start, waitVars>>

\* chrome.py:290-299
AttachWait(c) ==
    /\ self[c].pc = "att_wait"
    /\ IF CommandOutcome(self[c].command_executor, self[c].session_id) = "ok"
       THEN AttachReturn(c, self[c], TRUE, hist[c])
       ELSE Raise(c, "implicitly_wait")
    /\ UNCHANGED <<store, procs, sessions, reachable, dirState, nextSid, envEvents, start, waitVars>>

(***************************************************************************)
(* ReusableChrome.end_all_driver_processes, called by the program that     *)
(* owns the object once begin() has returned (tests/test_chrome.py:54).    *)
(***************************************************************************)
\* chrome.py:108-119
end_all_driver_processes(c) ==
    /\ self[c].pc = "done" /\ self[c].result # "raised"
    /\ \E survivors \in SurvivorChoices(procs) : KillEffect(survivors)
    /\ Set(c, [self[c] EXCEPT !.pc = "ended"])
    /\ Note(c, [hist[c] EXCEPT !.lastEnd = EndAllCall(procs, procs')])
    /\ UNCHANGED <<store, reachable, dirState, nextSid, envEvents, start, waitVars>>

(***************************************************************************)
(* The environment, while a begin() is running.                            *)
(***************************************************************************)
Running == \E c \in Callers : self[c].pc \notin {"start", "done", "ended", "off"}

\* a driver process exits on its own, taking its browser with it
EnvDriverExit ==
    /\ Running /\ envEvents < MaxEnvEvents
    /\ \E p \in procs :
          /\ p.name = ChromedriverExe
          /\ procs' = procs \ {p, BrowserProc(p.port)}
    /\ sessions' = {}
    /\ envEvents' = envEvents + 1
    /\ UNCHANGED <<self, hist, store, reachable, dirState, nextSid, start, waitVars>>

\* the user closes the browser of a session
EnvBrowserClosed ==
    /\ Running /\ envEvents < MaxEnvEvents
    /\ \E sid \in sessions : sessions' = sessions \ {sid}
    /\ procs' = IF sessions' = {} THEN {p \in procs : ~(p.name = ChromeExe /\ p.port # 0)}
                ELSE procs
    /\ envEvents' = envEvents + 1
    /\ UNCHANGED <<self, hist, store, reachable, dirState, nextSid, start, waitVars>>

\* driver and browser stop answering
EnvUnreachable ==
    /\ Running /\ envEvents < MaxEnvEvents
    /\ reachable
    /\ reachable' = FALSE
    /\ envEvents' = envEvents + 1
    /\ UNCHANGED <<self, hist, store, procs, sessions, dirState, nextSid, start, waitVars>>

Next ==
    \/ \E c \in Callers : BeginCreateStore(c)
    \/ \E c \in Callers : BeginLoad(c)
    \/ \E c \in Callers : BeginLoop(c)
    \/ \E c \in Callers : BeginKill(c)
    \/ \E c \in Callers : BeginLaunch(c)
    \/ \E c \in Callers : BeginPersist(c)
    \/ \E c \in Callers : AttachCheck(c)
    \/ \E c \in Callers : AttachOptions(c)
    \/ \E c \in Callers : AttachConnect(c)
    \/ \E c \in Callers : AttachRebind(c)
    \/ \E c \in Callers : AttachValidate(c)
    \/ \E c \in Callers : AttachWait(c)
    \/ \E c \in Callers : end_all_driver_processes(c)
    \/ EnvDriverExit
    \/ EnvBrowserClosed
    \/ EnvUnreachable

Spec == Init /\ [][Next]_vars

\* the same behaviours, under the name the claims about the steps of the
\* retry loop and of __attach are stated for
SpecAttach == Init /\ [][Next]_vars

(***************************************************************************)
(* The claims about ReusableChrome, checked under Spec.                    *)
(***************************************************************************)
Live == {c \in Callers : self[c].pc # "off"}
Returned(c) == self[c].pc \in {"done", "ended"}
FamilyNames == {ChromedriverExe, ChromeExe}
StartObj == start.store.text.obj
StartHandle ==
    /\ start.store.exists /\ start.store.text.kind = "object"
    /\ Truthy(DictGet(StartObj, "command_executor"))
    /\ Truthy(DictGet(StartObj, "session_id"))
NoProcessWork(h) ==
    h.checks = 0 /\ h.kills = 0 /\ h.launches = 0 /\ h.attaches = 0 /\ h.connects = 0

\* C1: whenever begin() has returned True, id.json holds a JSON object with
\* exactly the keys command_executor and session_id, their values are the
\* endpoint and the session id the driver object is bound to, and nothing of
\* the file's earlier content is left.
C1_PersistedHandle ==
    \A c \in Live : self[c].result = "True" =>
        /\ store.exists /\ store.text.kind = "object"
        /\ Keys(store.text.obj) = {"command_executor", "session_id"}
        /\ Cardinality(store.text.obj) = 2
        /\ DictGet(store.text.obj, "command_executor") = self[c].command_executor
        /\ DictGet(store.text.obj, "session_id") = self[c].session_id
        /\ self[c].session_id.t = "session"
        /\ self[c].command_executor.t = "http://127.0.0.1:"

\* begin() returned True over a file that held a handle and one more key
C1_Witness ==
    /\ self[1].result = "True"
    /\ start.store.exists /\ ExtraItem \in StartObj
    /\ store # start.store

\* C5: over an id.json that is not JSON (the empty file) begin() does not
\* raise while loading, both last_session_id and last_command_executor are
\* absent as they are for {}, no attach is made against a recorded session,
\* and the first iteration goes to terminate-and-launch: every attach follows
\* a launch and every launch a termination.
C5_InvalidAsEmpty ==
    (start.store.exists /\ start.store.text.kind = "invalid") =>
        \A c \in Live :
            LET h == hist[c]
            IN  /\ h.raisedAt # "load"
                /\ self[c].pc \notin {"start", "load"} =>
                       /\ h.loaded
                       /\ h.loadedHandle = <<None, None>>
                /\ self[c].pc = "loop" /\ h.iterations = 0 =>
                       /\ self[c].last_session_id = None
                       /\ self[c].last_command_executor = None
                /\ h.reuse = 0
                /\ h.attaches = h.launches
                /\ h.launches <= h.kills
                /\ h.iterations >= 1 => (h.kills >= 1 \/ self[c].pc = "kill")
                /\ LoadIds(start.store.text) = LoadIds(json_dump(EmptyDict))

\* begin() returned True over an empty file (tests/test_chrome.py:84-91)
C5_Witness ==
    /\ start.store.exists /\ start.store.text.kind = "invalid"
    /\ self[1].result = "True"
    /\ hist[1].launches >= 1

\* C6: when id.json does not exist as begin() starts, begin() creates it
\* holding an empty JSON object before it checks, terminates or launches any
\* process and before any attach; the file keeps that content until a handle
\* is persisted.
C6_CreatedFirst ==
    ~start.store.exists =>
        \A c \in Live :
            /\ self[c].pc = "start" => ~store.exists
            /\ self[c].pc \in {"start", "load"} => NoProcessWork(hist[c])
            /\ self[c].pc # "start" =>
                   /\ hist[c].created
                   /\ store.exists /\ store.text.kind = "object"
                   /\ self[c].result # "True" => store.text.obj = {}

\* the created file is in place while begin() terminates processes
C6_Witness ==
    /\ ~start.store.exists
    /\ self[1].pc = "launch" /\ hist[1].kills = 1
    /\ store.exists /\ store.text.obj = {}

\* C8: the attach loop runs at most attach_retries iterations, begin()
\* launches at most attach_retries processes, and no iteration follows the
\* one whose attach succeeded.
C8_RetryBudget ==
    \A c \in Live :
        LET h == hist[c]
        IN  /\ h.iterations <= self[c].attach_retries
            /\ h.launches <= self[c].attach_retries
            /\ h.launches <= h.iterations
            /\ h.successes <= 1
            /\ h.successes = 1 => self[c].pc \in {"persist", "done", "ended"}
            /\ self[c].result = "True" => h.successes = 1

\* the last iteration of a budget of two is the one that succeeds
C8_Witness ==
    /\ self[1].attach_retries = 2
    /\ hist[1].iterations = 2 /\ hist[1].launches = 2
    /\ self[1].result = "True"

\* C9: end_all_driver_processes returns True exactly when, after its
\* termination pass, no process with the family name in its name is running:
\* True when none ran at the call, False when one survived.
C9_EndAllReturn ==
    \A c \in Live :
        LET e == hist[c].lastEnd
        IN  e.called =>
              /\ e.ret <=> ({p \in e.after : p.name \in FamilyNames} = {})
              /\ ({p \in e.before : p.name \in FamilyNames} = {}) => e.ret
              /\ e.after \subseteq e.before

\* a browser survived the pass that ended the driver, and the call returned False
C9_Witness ==
    LET e == hist[1].lastEnd
    IN  /\ e.called /\ ~e.ret
        /\ e.after # e.before
        /\ \E p \in e.after : p.name = ChromeExe

\* the call found nothing to terminate and returned True
C9_WitnessNothingRunning ==
    LET e == hist[1].lastEnd
    IN  /\ e.called /\ e.ret
        /\ {p \in e.before : p.name \in FamilyNames} = {}

\* the handle id.json held as begin() started
StartUrl == DictGet(StartObj, "command_executor")
StartSid == DictGet(StartObj, "session_id")
\* a driver that fits the browser listened on the recorded endpoint
DriverAtStart ==
    /\ DriversAt(start.procs, StartUrl) # {}
    /\ \A p \in DriversAt(start.procs, StartUrl) : p.ver = "match"
\* the recorded session was one the driver accepted
ValidAtStart == StartSid.t = "session" /\ StartSid.n \in start.sessions
\* driver, browser and sessions stayed as they were but for what begin() did
Undisturbed == envEvents = 0

\* what C2 promises of a call of caller c
ReusedOnly(c) ==
    LET h == hist[c]
    IN  /\ h.kills = 0 /\ h.launches = 0 /\ h.attaches <= 1
        /\ self[c].result \in {"-", "True"}
        /\ Returned(c) => self[c].result = "True" /\ h.attaches = 1 /\ h.reuse = 1

\* C2 as stated: with the handle of a session that is still valid and its
\* driver running and responsive, begin() returns True after one attach and
\* neither terminates nor launches a process.
C2_Original ==
    (StartHandle /\ DriverAtStart /\ ValidAtStart /\ Undisturbed) =>
        \A c \in Live : ReusedOnly(c)

\* C2, amended: the same, for attach_retries >= 1 (with attach_retries = 0
\* the loop body never runs and begin() returns False).
C2_ReuseWithoutRelaunch ==
    (StartHandle /\ DriverAtStart /\ ValidAtStart /\ Undisturbed) =>
        \A c \in Live : self[c].attach_retries >= 1 => ReusedOnly(c)

\* begin() returned True on the recorded session, the locked user-data-dir
\* argument removed on the way
C2_Witness ==
    /\ StartHandle /\ DriverAtStart /\ ValidAtStart /\ Undisturbed
    /\ self[1].result = "True" /\ self[1].session_id = StartSid
    /\ hist[1].attaches = 1 /\ hist[1].kills = 0
    /\ dirState = "locked" /\ self[1].options = Options(<<LogLevelArg>>)

\* C3: with a recorded session id the running driver rejects, attach_retries
\* >= 1 and a launched process that can be attached (it starts, fits the
\* browser, nothing disturbs it), begin() sees the invalid session in attach,
\* only then terminates, then launches, attaches and returns True within the
\* budget, and the handle it persists does not carry the stale session id.
C3_StaleRelaunch ==
    (StartHandle /\ DriverAtStart /\ ~ValidAtStart /\ Undisturbed) =>
        \A c \in Live :
            LET h == hist[c]
            IN  (self[c].attach_retries >= 1 /\ h.notStarted = 0
                    /\ start.self[c].driver_path = "match") =>
                  /\ h.kills >= 1 => h.stale
                  /\ h.launches >= 1 => h.kills >= 1
                  /\ self[c].result \in {"-", "True"}
                  /\ Returned(c) =>
                        /\ self[c].result = "True"
                        /\ h.stale /\ h.kills >= 1 /\ h.launches >= 1
                        /\ h.iterations <= self[c].attach_retries
                        /\ DictGet(store.text.obj, "session_id") # StartSid
                        /\ self[c].session_id # StartSid

\* begin() returned True on a new session after the recorded one was rejected
C3_Witness ==
    /\ StartHandle /\ DriverAtStart /\ ~ValidAtStart /\ Undisturbed
    /\ hist[1].stale /\ hist[1].launches = 1
    /\ self[1].result = "True"
    /\ DictGet(store.text.obj, "session_id") = Sid(3)

\* C4 as stated: when id.json was loaded and no attach succeeded, begin()
\* returns False and no exception reaches the caller.
C4_Original ==
    \A c \in Live :
        (Returned(c) /\ hist[c].loaded /\ hist[c].successes = 0) =>
            self[c].result = "False"

\* what C7 promises of a call of caller c
LaunchedAnew(c) ==
    LET h == hist[c]
    IN  /\ h.reuse = 0
        /\ h.attaches = h.launches
        /\ Returned(c) => h.launches >= 1
        /\ h.successes = 1 /\ Returned(c) => self[c].result = "True"
        /\ self[c].result = "True" =>
              /\ DictGet(store.text.obj, "session_id") = self[c].session_id
              /\ self[c].session_id.t = "session"
              /\ self[c].session_id.n >= start.nextSid
              /\ self[c].session_id # StartSid
              /\ DictGet(store.text.obj, "command_executor") = Url(self[c].port)

\* C7 as stated: with a complete handle in id.json and no driver process
\* running, begin() makes no attach against the recorded session, launches a
\* new process and, on success, returns True with the new session's id and
\* http://127.0.0.1:<port> persisted.
C7_Original ==
    (StartHandle /\ ~(\E p \in start.procs : p.name = ChromedriverExe)) =>
        \A c \in Live : LaunchedAnew(c)

\* C7, amended: the same, for attach_retries >= 1 (with attach_retries = 0
\* nothing is launched and begin() returns False).
C7_NoAttachWithoutProcess ==
    (StartHandle /\ ~(\E p \in start.procs : p.name = ChromedriverExe)) =>
        \A c \in Live : self[c].attach_retries >= 1 => LaunchedAnew(c)

\* begin() returned True on a launched driver (tests/test_chrome.py:74-81)
C7_Witness ==
    /\ StartHandle /\ ~(\E p \in start.procs : p.name = ChromedriverExe)
    /\ self[1].result = "True" /\ hist[1].launches = 1 /\ hist[1].reuse = 0
    /\ DictGet(store.text.obj, "command_executor") = Url(DefaultPort)
    /\ DictGet(store.text.obj, "session_id") = Sid(2)

\* the steps of __attach after the connection was made
AttachSteps == {"close", "window_handles", "implicitly_wait"}

\* C17 as stated: a failure at any step of __attach makes it report failure
\* to begin(), and no failure of __attach leaves begin() as an exception.
C17_Original ==
    \A c \in Live : hist[c].raisedAt \notin AttachSteps

\* what C20 promises of a step of __attach taken by caller c while no driver
\* process runs
AttachWithoutProcess(c) ==
    (self[c].pc = "att_check" /\ ~any_chrome_process_exists /\ self'[c] # self[c]) =>
        /\ self'[c].pc \in {"loop", "kill", "done"}
        /\ ~self'[c].attached
        /\ hist'[c].successes = hist[c].successes
        /\ hist'[c].connects = hist[c].connects
        /\ hist'[c].kills = hist[c].kills
        /\ self'[c].options = self[c].options
        /\ self'[c].session_id = self[c].session_id
        /\ self'[c].command_executor = self[c].command_executor
        /\ procs' = procs /\ sessions' = sessions /\ nextSid' = nextSid
        /\ dirState' = dirState

\* C20: __attach called while no driver process is running returns False at
\* once: it opens no connection, changes no option, terminates no process
\* and leaves the session the object is bound to as it was.
C20_NoProcessNoEffect == [][\A c \in Callers : AttachWithoutProcess(c)]_vars

\* the driver of the recorded session had gone when __attach looked for it:
\* the attach ended without a connection
C20_Witness ==
    /\ hist[1].reuse = 1 /\ hist[1].checks = 2 /\ hist[1].connects = 0
    /\ self[1].pc = "kill" /\ ~self[1].attached
    /\ ~any_chrome_process_exists

\* the launched driver did not start: the attach that followed ended without
\* a connection
C20_WitnessLaunch ==
    /\ hist[1].reuse = 0 /\ hist[1].launches = 1 /\ hist[1].attaches = 1
    /\ hist[1].connects = 0 /\ self[1].pc = "loop"
    /\ ~any_chrome_process_exists

C21_WitnessFree ==
    /\ self[1].pc = "att_connect"
    /\ dirState = "free" /\ HasUserDataDir(self[1].options)

\* __attach is about to connect with the argument of a directory not there
C21_WitnessAbsent ==
    /\ self[1].pc = "att_connect"
    /\ dirState = "absent" /\ HasUserDataDir(self[1].options)

\* the error the connection of caller c is about to meet
ConnectError(c) ==
    ConnectOutcome(self[c].last_command_executor, self[c].options)

\* the connection step of __attach meeting a version mismatch
VersionMismatchStep(c) ==
    (self[c].pc = "att_connect" /\ self'[c] # self[c]
        /\ ConnectError(c) = "SessionNotCreatedException(version)") =>
        /\ self'[c].driver_path = "match"
        /\ ~self'[c].attached /\ self'[c].result = "-"
        /\ self'[c].pc = IF self[c].via = "reuse" THEN "kill" ELSE "loop"
        /\ procs' = procs /\ sessions' = sessions
        /\ hist'[c].kills = hist[c].kills
        /\ hist'[c].successes = hist[c].successes

\* a launch runs the binary at driver_path, which stays re-resolved
LaunchUsesDriverPath(c) ==
    /\ self[c].driver_path = "match" => self'[c].driver_path = "match"
    /\ (self[c].pc = "launch" /\ self'[c] # self[c]) =>
          /\ hist'[c].launches = hist[c].launches + 1
          /\ procs' \ procs \subseteq {DriverProc(self[c].port, self[c].driver_path)}
          /\ procs \subseteq procs'

\* C22: when the connection of __attach is rejected with the
\* session-not-created error of a driver that does not fit the browser,
\* __attach re-resolves the driver binary and returns False, terminating no
\* process; every launch made later in the same begin() runs the re-resolved
\* binary.
C22_MismatchReResolves ==
    [][\A c \in Callers : VersionMismatchStep(c) /\ LaunchUsesDriverPath(c)]_vars

\* begin() returned True on a driver launched from the re-resolved binary
C22_Witness ==
    /\ start.self[1].driver_path = "old" /\ self[1].driver_path = "match"
    /\ hist[1].launches = 2 /\ hist[1].connects >= 2
    /\ DriverProc(DefaultPort, "match") \in procs
    /\ self[1].result = "True"

\* the connection step of __attach meeting an endpoint that cannot be
\* reached or that answers with a protocol error
ConnectErrorStep(c) ==
    (self[c].pc = "att_connect" /\ self'[c] # self[c]
        /\ ConnectError(c) \in {"MaxRetryError", "WebDriverException"}) =>
        /\ hist'[c].kills = hist[c].kills + 1
        /\ hist'[c].lastEnd.called
        /\ hist'[c].lastEnd.before = procs /\ hist'[c].lastEnd.after = procs'
        /\ procs' \subseteq procs /\ (procs \ procs') \subseteq Matched(procs)
        /\ ~self'[c].attached /\ self'[c].result = "-"
        /\ hist'[c].successes = hist[c].successes
        /\ IF self[c].via = "reuse"
           THEN /\ self'[c].pc = "kill"
                /\ self'[c].tentativa_atual = self[c].tentativa_atual
           ELSE /\ self'[c].pc = "loop"
                /\ self'[c].tentativa_atual = self[c].tentativa_atual + 1
                /\ self'[c].last_session_id = None

\* what begin() does after an attach failed: the reuse attach is followed by
\* terminate-and-launch at once, any other by the next iteration's
RelaunchFollows(c) ==
    /\ (self[c].pc = "kill" /\ self'[c] # self[c]) => self'[c].pc = "launch"
    /\ (self[c].pc = "launch" /\ self'[c] # self[c]) =>
          /\ self'[c].pc = "att_check"
          /\ hist'[c].launches = hist[c].launches + 1
    /\ (self[c].pc = "loop" /\ self[c].last_session_id = None /\ self'[c] # self[c]) =>
          IF self[c].tentativa_atual < self[c].attach_retries
          THEN self'[c].pc = "kill"
          ELSE self'[c].pc = "done" /\ self'[c].result = "False"

\* C23: when the connection of __attach fails because the endpoint cannot be
\* reached or answers with a generic protocol error, __attach calls
\* end_all_driver_processes before it returns False, and begin() goes on to
\* launch a new process: in the same iteration after the reuse attach, in the
\* next iteration, if the budget allows one, otherwise.
C23_ConnectErrorTerminates ==
    [][\A c \in Callers : ConnectErrorStep(c) /\ RelaunchFollows(c)]_vars

\* the reuse attach could not connect: __attach and then begin() terminated,
\* and begin() launched in the same iteration
C23_Witness ==
    /\ hist[1].reuse = 1 /\ hist[1].connects = 1 /\ hist[1].iterations = 1
    /\ hist[1].kills = 2 /\ hist[1].launches = 1
    /\ self[1].pc = "att_check"

\* the attach to a launched driver could not connect: the next iteration
\* launched again
C23_WitnessNextIteration ==
    /\ hist[1].reuse = 0 /\ hist[1].connects = 1 /\ hist[1].iterations = 2
    /\ hist[1].kills = 3 /\ hist[1].launches = 2
    /\ self[1].pc = "att_check"

\* begin() returned True from the attach against the recorded session
ReuseSucceeded(c) ==
    self[c].result = "True" /\ hist[c].reuse = 1 /\ hist[c].launches = 0

\* the session the reuse attach created is gone and the object is bound to
\* the recorded one
Rejoined(c) ==
    /\ self[c].session_id = StartSid
    /\ self[c].session_id = self[c].last_session_id
    /\ self[c].command_executor = StartUrl
    /\ hist[c].connects = 1 /\ nextSid = start.nextSid + 1
    /\ start.nextSid \notin sessions
    /\ DictGet(store.text.obj, "session_id") = StartSid
    /\ DictGet(store.text.obj, "command_executor") = StartUrl

C25_SurvivorDoesNotAbort ==
    \A c \in Live :
        LET h == hist[c]
        IN  /\ self[c].pc = "launch" => h.lastEnd.called /\ h.kills >= h.launches + 1
            /\ h.attaches = h.launches + h.reuse
            /\ h.launches >= h.iterations - 1
            /\ h.launches = h.iterations - 1 =>
                  \/ self[c].pc \in {"kill", "launch"}
                  \/ h.reuse = 1 /\ self[c].via = "reuse"
            /\ self[c].result = "False" =>
                  /\ h.iterations = self[c].attach_retries
                  /\ h.launches = self[c].attach_retries

\* a process survived the termination pass of begin(), and begin() has
\* launched and is in __attach
C25_Witness ==
    /\ self[1].pc = "att_check" /\ self[1].via = "new"
    /\ hist[1].launches = 1 /\ hist[1].attaches = 1
    /\ hist[1].lastEnd.called /\ ~hist[1].lastEnd.ret

\* begin() returned True in the iteration whose termination pass left a
\* process behind
C25_WitnessSuccess ==
    /\ self[1].pc = "done" /\ self[1].result = "True"
    /\ hist[1].launches = 1 /\ hist[1].kills = 1
    /\ hist[1].lastEnd.called /\ ~hist[1].lastEnd.ret

\* the steps of __attach
AttachPcs ==
    {"att_check", "att_options", "att_connect", "att_rebind", "att_validate", "att_wait"}

\* C26: in one begin() the attach against the session id read from id.json
\* is made at most once and in the first iteration only; every launch leaves
\* last_session_id absent and last_command_executor at
\* http://127.0.0.1:<port>, so every later attach is for a new session and
\* every later iteration goes to terminate-and-launch; __attach is called at
\* most attach_retries + 1 times.
C26_ReuseOnceFirstIteration ==
    \A c \in Live :
        LET h == hist[c]
        IN  /\ h.reuse <= 1
            /\ h.reuse = 1 => h.iterations >= 1 /\ h.loadedHandle[2] # None
            /\ (self[c].pc \in AttachPcs /\ self[c].via = "reuse") =>
                  /\ h.iterations = 1 /\ h.launches = 0 /\ h.attaches = 1
                  /\ self[c].last_session_id = h.loadedHandle[2]
            /\ h.launches >= 1 =>
                  /\ self[c].last_session_id = None
                  /\ self[c].last_command_executor = Url(self[c].port)
                  /\ self[c].pc \in AttachPcs => self[c].via = "new"
            /\ (h.launches >= 1 /\ self[c].result = "True") =>
                  /\ self[c].session_id.t = "session"
                  /\ self[c].session_id.n >= start.nextSid
            /\ h.iterations >= 2 => h.launches >= h.iterations - 1
            /\ h.attaches <= self[c].attach_retries + 1
            /\ h.attaches = h.launches + h.reuse

\* the recorded session was tried once, in the first iteration, and the
\* attach of the second iteration is for a new session
C26_Witness ==
    /\ hist[1].reuse = 1 /\ hist[1].iterations = 2 /\ hist[1].attaches = 3
    /\ self[1].attach_retries = 2
    /\ self[1].pc = "att_connect" /\ self[1].via = "new"
    /\ self[1].last_session_id = None
    /\ hist[1].loadedHandle[2] = Sid(1)

\* id.json as begin() loaded it
LoadedStore ==
    IF start.store.exists THEN start.store
    ELSE [exists |-> TRUE, text |-> json_dump(EmptyDict)]

\* C27: when begin() returns False id.json has not been overwritten with a
\* handle: it holds what was loaded at the start of the call, or the empty
\* object begin() created, whatever was terminated and launched; the file is
\* written only after an attach succeeded.
C27_FalseLeavesStore ==
    \A c \in Live :
        /\ self[c].result = "False" => hist[c].successes = 0
        /\ (self[c].pc # "start" /\ hist[c].successes = 0) => store = LoadedStore

\* begin() returned False after terminating and launching twice, the handle
\* of id.json still in place
C27_Witness ==
    /\ self[1].result = "False"
    /\ hist[1].kills >= 2 /\ hist[1].launches = 2
    /\ StartHandle /\ store = start.store

\* begin() returned False over the file it had created
C27_WitnessCreated ==
    /\ self[1].result = "False" /\ hist[1].launches >= 1
    /\ ~start.store.exists /\ store.exists /\ store.text.obj = {}

\* C28 as stated: whatever an existing id.json holds, JSON that is not an
\* object included, begin() does not fail while loading it and takes what is
\* not a well-formed handle for an empty one.
C28_Original ==
    start.store.exists =>
        \A c \in Live :
            /\ hist[c].raisedAt # "load"
            /\ (self[c].pc \notin {"start", "load"} /\ start.store.text.kind # "object") =>
                   hist[c].loadedHandle = <<None, None>>

(***************************************************************************)
(* The polling waits of CustomWebDriver.  Time is counted in seconds:      *)
(* time.sleep(1) takes one, a command sent to the browser 0..MaxLatency.   *)
(***************************************************************************)
ReadyStates == {"loading", "interactive", "complete"}

\* custom_webdriver.py:202  timeout=1 of the inner wait_execute_script
ScriptTimeout == 1

\* retimer.Timer(duration).not_expired for a timer started at `since`
NotExpired(since, duration, now) == ~(now - since > duration)

\* custom_webdriver.py:202: the script wait_page_state sends; it has no
\* `return`, so execute_script yields None whatever the page's state is
ReadyStateScript == [src |-> "document.readyState", returns |-> FALSE]
execute_script(script, page) == IF script.returns THEN page ELSE "None"

\* mutant: the alert is not among the errors retried
Retryable_NoAlert == {"JavascriptException", "StaleElementReferenceException"}
\* custom_webdriver.py:249-253: the errors wait_execute_script retries
Retryable ==
    {"JavascriptException", "StaleElementReferenceException",
     "UnexpectedAlertPresentException"}
\* what a poll of execute_script meets: a value, an error retried, another
\* WebDriverException, or an error that is no WebDriverException
PollOutcomes == {"value"} \cup Retryable \cup {"WebDriverException", "Exception"}

\* custom_webdriver.py:276  r = True if r is None else r
NoneAsTrue(r) == IF r = "None" THEN "True" ELSE r

\* custom_webdriver.py:209  if state == state
StateReached(state, page_state) == state = state

\* custom_webdriver.py:198-200 and 215-217: the loop head of wait_page_state
WaitPageStateLoop ==
    /\ wait.pc = "wps_loop"
    /\ wait' = IF NotExpired(wait.timer, wait.timeout, wait.now)
               THEN [wait EXCEPT !.pc = "wes_loop", !.script_timer = wait.now]
               ELSE [wait EXCEPT !.pc = "done", !.result = "False"]
    /\ UNCHANGED <<beginVars, nav, dl, op>>

\* custom_webdriver.py:244-245 and 279-281: the loop head of the inner
\* wait_execute_script, which returns False when its second is over
WaitExecuteScriptLoop ==
    /\ wait.pc = "wes_loop"
    /\ wait' = IF NotExpired(wait.script_timer, ScriptTimeout, wait.now)
               THEN [wait EXCEPT !.pc = "wes_poll"]
               ELSE [wait EXCEPT !.pc = "wps_compare", !.page_state = "False"]
    /\ UNCHANGED <<beginVars, nav, dl, op>>

\* custom_webdriver.py:247-277, and 203-206 for the error wait_page_state catches
WaitExecuteScriptPoll ==
    /\ wait.pc = "wes_poll"
    /\ \E latency \in 0..MaxLatency, out \in PollOutcomes :
          LET now == wait.now + latency
          IN  wait' =
                CASE out = "value" ->
                       [wait EXCEPT
                          !.now = now, !.polls = @ + 1,
                          !.matched = @ \/ wait.page = wait.state,
                          !.page_state = NoneAsTrue(execute_script(ReadyStateScript, wait.page)),
                          !.pc = "wps_compare"]
                  [] out \in Retryable ->
                       [wait EXCEPT !.now = now + 1, !.polls = @ + 1, !.pc = "wes_loop"]
                  [] out = "WebDriverException" ->
                       [wait EXCEPT !.now = now + 1, !.polls = @ + 1, !.pc = "wps_loop"]
                  [] OTHER ->
                       [wait EXCEPT !.now = now, !.polls = @ + 1,
                                    !.pc = "done", !.result = "raised"]
    /\ UNCHANGED <<beginVars, nav, dl, op>>

\* custom_webdriver.py:208-213
WaitPageStateCompare ==
    /\ wait.pc = "wps_compare"
    /\ wait' = IF StateReached(wait.state, wait.page_state)
               THEN [wait EXCEPT !.pc = "done", !.result = "True"]
               ELSE [wait EXCEPT !.now = @ + 1, !.pc = "wps_loop"]
    /\ UNCHANGED <<beginVars, nav, dl, op>>

\* the page goes on loading while the program waits
EnvPageLoads ==
    /\ wait.pc \notin {"off", "done"}
    /\ wait.page # "complete"
    /\ wait' = [wait EXCEPT !.page = IF @ = "loading" THEN "interactive" ELSE "complete"]
    /\ UNCHANGED <<beginVars, nav, dl, op>>

\* wait_page_state(state, timeout) is called on a page in any ready state
InitWait ==
    /\ self = [c \in Callers |-> Absent]
    /\ hist = [c \in Callers |-> NoHistory]
    /\ store = [exists |-> FALSE, text |-> InvalidText]
    /\ procs = {Notepad}
    /\ sessions = {}
    /\ reachable = TRUE
    /\ dirState = "absent"
    /\ nextSid = 2
    /\ envEvents = 0
    /\ start = [store |-> store, procs |-> procs, sessions |-> sessions,
                nextSid |-> nextSid, self |-> self]
    /\ \E state \in ReadyStates, timeout \in 0..MaxTimeout, page \in ReadyStates :
          wait = [NoWait EXCEPT !.pc = "wps_loop", !.state = state,
                                !.timeout = timeout, !.page = page]
    /\ nav = Idle /\ dl = Idle /\ op = Idle

NextWait ==
    \/ WaitPageStateLoop
    \/ WaitExecuteScriptLoop
    \/ WaitExecuteScriptPoll
    \/ WaitPageStateCompare
    \/ EnvPageLoads

SpecWait == InitWait /\ [][NextWait]_vars

(***************************************************************************)
(* The claims about the polling waits, checked under SpecWait.             *)
(***************************************************************************)
\* C10 as stated: wait_page_state returns True only if a poll saw the page in
\* the requested ready state, and it returns False only once the timeout is
\* over.
C10_Original ==
    /\ wait.result = "True" => wait.matched
    /\ wait.result = "False" => wait.now - wait.timer > wait.timeout

(***************************************************************************)
(* CustomWebDriver.wait_execute_script, called by itself with any script.  *)
(***************************************************************************)
\* the begin() variables while only CustomWebDriver operations are studied
NoBegin ==
    /\ self = [c \in Callers |-> Absent]
    /\ hist = [c \in Callers |-> NoHistory]
    /\ store = [exists |-> FALSE, text |-> InvalidText]
    /\ procs = {Notepad}
    /\ sessions = {}
    /\ reachable = TRUE
    /\ dirState = "absent"
    /\ nextSid = 2
    /\ envEvents = 0
    /\ start = [store |-> store, procs |-> procs, sessions |-> sessions,
                nextSid |-> nextSid, self |-> self]

\* what execute_script may hand back: None, a WebElement, a list holding a
\* WebElement, a list holding none, the boolean false of the script, any
\* other value
ScriptValues == {"None", "WebElement", "list[WebElement]", "list[]", "False", "value"}

\* the errors a command sent to the browser may raise: selenium's
\* WebDriverException and three of its subclasses, and any other Exception
ScriptErrors ==
    {"JavascriptException", "StaleElementReferenceException",
     "UnexpectedAlertPresentException", "WebDriverException", "Exception"}

\* mutant: any list is let through
IsWebElementResult_AnyList(r) == r \in {"WebElement", "list[WebElement]", "list[]"}

\* custom_webdriver.py:263-269: the values force_wait_webelement lets through
IsWebElementResult(r) == r \in {"WebElement", "list[WebElement]"}

ScriptCall(timeout, force) ==
    [ pc |-> "wes_loop", timeout |-> timeout, force |-> force, now |-> 0,
      timer |-> 0, polls |-> 0, last |-> "-", error |-> "-", result |-> "-" ]

\* custom_webdriver.py:244-245 and 279-281
wait_execute_script_loop ==
    /\ op.pc = "wes_loop"
    /\ op' = IF NotExpired(op.timer, op.timeout, op.now)
             THEN [op EXCEPT !.pc = "wes_poll"]
             ELSE [op EXCEPT !.pc = "done", !.result = "False"]
    /\ UNCHANGED <<beginVars, wait, nav, dl>>

\* custom_webdriver.py:247-277: one execute_script and what follows it
wait_execute_script_poll ==
    /\ op.pc = "wes_poll"
    /\ \E latency \in 0..MaxLatency,
          out \in ScriptValues \cup ScriptErrors :
          LET now  == op.now + latency
              seen == [op EXCEPT !.now = now, !.polls = @ + 1, !.last = out]
          IN  op' =
                CASE out \in Retryable ->
                       [seen EXCEPT !.now = now + 1, !.pc = "wes_loop"]
                  [] out \in ScriptErrors \ Retryable ->
                       [seen EXCEPT !.pc = "done", !.result = "raised", !.error = out]
                  [] out \in ScriptValues /\ op.force ->
                       IF IsWebElementResult(out)
                       THEN [seen EXCEPT !.pc = "done", !.result = out]
                       ELSE [seen EXCEPT !.now = now + 1, !.pc = "wes_loop"]
                  [] OTHER ->
                       [seen EXCEPT !.pc = "done", !.result = NoneAsTrue(out)]
    /\ UNCHANGED <<beginVars, wait, nav, dl>>

InitScript ==
    /\ NoBegin
    /\ wait = NoWait /\ nav = Idle /\ dl = Idle
    /\ \E timeout \in 0..MaxTimeout, force \in BOOLEAN : op = ScriptCall(timeout, force)

NextScript ==
    \/ wait_execute_script_loop
    \/ wait_execute_script_poll

SpecScript == InitScript /\ [][NextScript]_vars

\* the errors C13 names: stale element, alert present, script execution error
TransientErrors ==
    {"StaleElementReferenceException", "UnexpectedAlertPresentException",
     "JavascriptException"}

\* C13: in wait_execute_script a stale-element, alert-present or script
\* error of a poll is swallowed and the script retried until the timeout, when
\* False is returned; any other error leaves the call on the poll where it
\* occurs, with no further poll.
C13_TransientRetried ==
    /\ op.last \in TransientErrors =>
          /\ op.result \in {"-", "False"}
          /\ op.error = "-"
          /\ op.pc = "done" => op.now - op.timer > op.timeout
    /\ (op.result = "False" /\ op.last \notin ScriptValues) =>
          op.now - op.timer > op.timeout
    /\ op.last \in {"WebDriverException", "Exception"} =>
          /\ op.pc = "done" /\ op.result = "raised" /\ op.error = op.last
    /\ op.result = "raised" => op.error \notin TransientErrors /\ op.error = op.last

\* a stale element was met, retried, and the call then ended with False
C13_Witness ==
    /\ op.last = "StaleElementReferenceException"
    /\ op.polls >= 2 /\ op.result = "False"

\* another error left the call on its second poll
C13_WitnessRaised ==
    /\ op.result = "raised" /\ op.polls = 2 /\ op.error = "WebDriverException"

\* the timeout of the call has elapsed
ScriptTimedOut == op.now - op.timer > op.timeout

\* what C29 promises of the last poll when it raised no error
PollReturned ==
    op.last \in ScriptValues =>
        IF ~op.force
        THEN /\ op.pc = "done"
             /\ op.result = IF op.last = "None" THEN "True" ELSE op.last
        ELSE IF op.last \in {"WebElement", "list[WebElement]"}
        THEN op.pc = "done" /\ op.result = op.last
        ELSE /\ op.result \in {"-", "False"}
             /\ op.pc = "done" => ScriptTimedOut

\* a value is returned by the poll that produced it
ReturnedFromPoll ==
    (op.pc = "done" /\ op.result \notin {"False", "raised"}) =>
        /\ op.last \in ScriptValues
        /\ op.force => op.result \in {"WebElement", "list[WebElement]"}

\* C29 as stated: wait_execute_script returns the result of the first poll
\* that raises no error, None as True; with force_wait_webelement only a
\* WebElement or a list holding one is returned and other results are polled
\* again; False is returned only when the timeout has elapsed.
C29_Original ==
    /\ PollReturned
    /\ ReturnedFromPoll
    /\ op.result = "False" => ScriptTimedOut

\* C29, amended: the same, False being returned when the timeout has elapsed
\* and also, without force_wait_webelement, when it is the script's own
\* result.
C29_ScriptResult ==
    /\ PollReturned
    /\ ReturnedFromPoll
    /\ op.result = "False" =>
          \/ ScriptTimedOut /\ op.last \notin {"WebElement", "list[WebElement]"}
                            /\ (op.last \in ScriptValues => op.force)
          \/ ~op.force /\ op.last = "False" /\ op.polls >= 1

\* a script without a result: True from the first poll
C29_Witness ==
    /\ ~op.force /\ op.polls = 1 /\ op.last = "None"
    /\ op.pc = "done" /\ op.result = "True"

\* with force_wait_webelement the second poll's list of elements is returned
C29_WitnessForced ==
    /\ op.force /\ op.polls = 2 /\ op.last = "list[WebElement]"
    /\ op.pc = "done" /\ op.result = "list[WebElement]"

\* with force_wait_webelement an empty list was polled again until the
\* timeout
C29_WitnessForcedTimeout ==
    /\ op.force /\ op.polls >= 2 /\ op.last = "list[]"
    /\ op.pc = "done" /\ op.result = "False" /\ ScriptTimedOut

\* the script's false returned by the first poll, the timeout not elapsed
C29_WitnessScriptFalse ==
    /\ ~op.force /\ op.polls = 1 /\ op.last = "False"
    /\ op.pc = "done" /\ op.result = "False" /\ ~ScriptTimedOut

(***************************************************************************)
(* CustomWebDriver.open_url.  nav holds the call and the browser's address *)
(* bar: `current` is the URL the browser is on, `lastGet` the URL of the   *)
(* last navigation issued and `getOutcome` what that navigation met.       *)
(* wait_page_state runs as the call it is, on the variable wait.           *)
(***************************************************************************)
\* custom_webdriver.py:690  the page get_download_all_progress opens
DownloadsUrl == "chrome://downloads/"
Urls == {"https://a.example/", "https://b.example/", DownloadsUrl}

\* custom_webdriver.py:138  timeout: Union[float, int] = 30
OpenUrlTimeout == 30

\* the browser before any call
Browser(current) ==
    [ pc |-> "off", url |-> current, state |-> "complete", timeout |-> 0,
      current |-> current, lastGet |-> "-", getOutcome |-> "-",
      loaded |-> "-", elapsed |-> 0, result |-> "-" ]

\* a call of open_url(url, state=state, timeout=timeout) on browser b
OpenUrlCall(b, url, state, timeout) ==
    [b EXCEPT !.pc = "get", !.url = url, !.state = state, !.timeout = timeout,
              !.loaded = "-", !.elapsed = 0, !.result = "-"]

\* a call of wait_page_state(state, timeout) on a page in ready state `page`
WaitPageStateCall(state, timeout, page) ==
    [NoWait EXCEPT !.pc = "wps_loop", !.state = state, !.timeout = timeout,
                   !.page = page]

\* what self.get(url) may meet
GetOutcomes == {"ok", "WebDriverException", "TimeoutException", "Exception"}

\* mutant: only the timeout of the navigation is caught
GetCaught_TimeoutOnly(out) == out = "TimeoutException"
\* custom_webdriver.py:163  except (WebDriverException, TimeoutException)
GetCaught(out) == out \in {"WebDriverException", "TimeoutException"}

\* custom_webdriver.py:160-165
OpenUrlGet ==
    /\ nav.pc = "get"
    /\ \E out \in GetOutcomes, latency \in 0..MaxLatency :
          LET issued == [nav EXCEPT !.lastGet = nav.url, !.getOutcome = out,
                                    !.elapsed = latency]
          IN  CASE out = "ok" ->
                     /\ nav' = [issued EXCEPT !.current = nav.url, !.pc = "wait"]
                     /\ \E page \in ReadyStates :
                           wait' = WaitPageStateCall(nav.state, nav.timeout, page)
                [] GetCaught(out) ->
                     /\ \E at \in {nav.current, nav.url} :
                           nav' = [issued EXCEPT !.current = at, !.pc = "done",
                                                 !.result = "False"]
                     /\ UNCHANGED wait
                [] OTHER ->
                     /\ nav' = [issued EXCEPT !.pc = "done", !.result = "raised"]
                     /\ UNCHANGED wait
    /\ UNCHANGED <<beginVars, dl, op>>

\* custom_webdriver.py:167-173; reading self.title for the log line is a
\* command to the browser, which may raise
OpenUrlLoaded ==
    /\ nav.pc = "wait" /\ wait.pc = "done"
    /\ LET back == [nav EXCEPT !.loaded = wait.result, !.pc = "done",
                               !.elapsed = @ + wait.now]
       IN  CASE wait.result = "raised" -> nav' = [back EXCEPT !.result = "raised"]
             [] wait.result = "False"  -> nav' = [back EXCEPT !.result = "False"]
             [] OTHER -> \E title \in {"ok", "WebDriverException"} :
                           nav' = [back EXCEPT !.result =
                                      IF title = "ok" THEN "True" ELSE "raised"]
    /\ wait' = NoWait
    /\ UNCHANGED <<beginVars, dl, op>>

InitOpen ==
    /\ NoBegin
    /\ wait = NoWait /\ dl = Idle /\ op = Idle
    /\ \E current \in Urls, url \in Urls, state \in ReadyStates, timeout \in 0..MaxTimeout :
          nav = OpenUrlCall(Browser(current), url, state, timeout)

NextOpen ==
    \/ OpenUrlGet
    \/ OpenUrlLoaded
    \/ WaitPageStateLoop
    \/ WaitExecuteScriptLoop
    \/ WaitExecuteScriptPoll
    \/ WaitPageStateCompare
    \/ EnvPageLoads

SpecOpen == InitOpen /\ [][NextOpen]_vars

\* C18: open_url returns True only if the navigation raised no error and the
\* wait_page_state that followed returned True; it returns False, and does
\* not raise, when the navigation raises a WebDriver or timeout error or when
\* the wait for the page state returns False.
C18_OpenUrlResult ==
    /\ nav.result = "True" => nav.getOutcome = "ok" /\ nav.loaded = "True"
    /\ (nav.pc = "done" /\ nav.getOutcome \in {"WebDriverException", "TimeoutException"}) =>
          nav.result = "False" /\ nav.loaded = "-"
    /\ (nav.pc = "done" /\ nav.loaded = "False") => nav.result = "False"

\* the navigation went through and the wait for the page state timed out
C18_Witness ==
    /\ nav.result = "False" /\ nav.getOutcome = "ok" /\ nav.loaded = "False"

\* the navigation timed out and open_url returned False
C18_WitnessNavigation ==
    /\ nav.result = "False" /\ nav.getOutcome = "TimeoutException"

(***************************************************************************)
(* CustomWebDriver.wait_all_downloads_end and get_download_all_progress.   *)
(* A call of open_url inside them is taken as a whole, by the ways open_url *)
(* can end (OpenUrlEnds, which SpecOpen reaches and never leaves).          *)
(***************************************************************************)
\* how a call of open_url ends: what the navigation met, what
\* wait_page_state returned, what open_url returned, and whether the browser
\* left the URL it was on
OpenUrlEnd(get, loaded, result, moved) ==
    [get |-> get, loaded |-> loaded, result |-> result, moved |-> moved]
OpenUrlEnds ==
    {OpenUrlEnd("ok", "True", "True", TRUE),
     OpenUrlEnd("ok", "True", "raised", TRUE),
     OpenUrlEnd("ok", "False", "False", TRUE),
     OpenUrlEnd("ok", "raised", "raised", TRUE),
     OpenUrlEnd("Exception", "-", "raised", FALSE)}
    \cup {OpenUrlEnd(get, "-", "False", moved) :
             get \in {"WebDriverException", "TimeoutException"}, moved \in BOOLEAN}

\* the browser after a call of open_url(url) on browser b that ended as e
open_url(b, url, e) ==
    [b EXCEPT !.url = url, !.lastGet = url, !.getOutcome = e.get,
              !.loaded = e.loaded, !.result = e.result,
              !.current = IF e.moved THEN url ELSE b.current]

\* custom_webdriver.py:133-173 ends in one of OpenUrlEnds, with this effect
OpenUrlEndsCoverOpenUrl ==
    nav.pc = "done" =>
        \E e \in OpenUrlEnds, b \in {Browser(u) : u \in Urls} :
            /\ nav.current = open_url(b, nav.url, e).current
            /\ <<nav.lastGet, nav.getOutcome, nav.loaded, nav.result>>
                  = <<nav.url, e.get, e.loaded, e.result>>

\* the time a call of open_url(timeout=timeout) may take: that of a
\* navigation, or until after the page-state wait has timed out
OpenUrlElapsed(timeout) == (0..MaxLatency) \cup {timeout + 1}

\* custom_webdriver.py:670  timeout: Union[float, int] = 10
DownloadsPageTimeout == 10

\* an entry of the progress list: None for a finished download, else a number
Percent(n) == [t |-> "int", n |-> n]
\* the lists the script of custom_webdriver.py:695-712 may hand back
ProgressLists ==
    {<<>>, <<None>>, <<Percent(64)>>, <<None, Percent(0)>>, <<None, None>>}

\* mutant: one finished download is enough
AllDownloadsDone_Any(progress) == \E i \in 1..Len(progress) : progress[i] = None
\* custom_webdriver.py:742  all(item is None for item in progress)
AllDownloadsDone(progress) == \A i \in 1..Len(progress) : progress[i] = None

\* mutant: the browser is left on the downloads page
RestoredUrl_None(d) == DownloadsUrl
\* custom_webdriver.py:747 and 752: the URL opened before returning
RestoredUrl(d) == d.url_before

\* a call of wait_all_downloads_end(timeout=timeout) on a browser at `current`
DownloadsCall(timeout, current) ==
    [ pc |-> "loop", timeout |-> timeout, now |-> 0, timer |-> 0,
      url_before |-> current, polls |-> 0, progress |-> <<>>, observed |-> FALSE,
      sawAllDone |-> FALSE, sawPending |-> FALSE, navigations |-> 0,
      error |-> "-", result |-> "-" ]

\* custom_webdriver.py:737 and 750: the loop head
DownloadsLoop ==
    /\ dl.pc = "loop"
    /\ dl' = IF NotExpired(dl.timer, dl.timeout, dl.now)
             THEN [dl EXCEPT !.pc = "progress"]
             ELSE [dl EXCEPT !.pc = "restore_timeout"]
    /\ UNCHANGED <<beginVars, wait, nav, op>>

\* custom_webdriver.py:739-745 with get_download_all_progress
\* (custom_webdriver.py:690-714): one poll
DownloadsProgress ==
    /\ dl.pc = "progress"
    /\ \E e \in OpenUrlEnds, elapsed \in OpenUrlElapsed(DownloadsPageTimeout) :
          LET polled == [dl EXCEPT !.now = @ + elapsed, !.polls = @ + 1,
                                   !.navigations = 1]
          IN  /\ nav' = open_url(nav, DownloadsUrl, e)
              /\ CASE e.result = "raised" ->
                        dl' = [polled EXCEPT !.pc = "done", !.result = "raised",
                                             !.error = "open_url"]
                   [] e.result = "False" ->
                        \* progress is False, and all() cannot iterate over a bool
                        dl' = [polled EXCEPT !.pc = "done", !.result = "raised",
                                             !.error = "TypeError"]
                   [] OTHER ->
                        \E latency \in 0..MaxLatency, out \in ProgressLists,
                           error \in {"-", "WebDriverException"} :
                           LET seen == [polled EXCEPT !.now = @ + latency,
                                                      !.progress = out,
                                                      !.observed = TRUE]
                           IN  dl' =
                                 IF error # "-"
                                 THEN [polled EXCEPT !.now = @ + latency, !.pc = "done",
                                                     !.result = "raised", !.error = error]
                                 ELSE IF AllDownloadsDone(out)
                                 THEN [seen EXCEPT !.sawAllDone = TRUE,
                                                   !.pc = "restore_done"]
                                 ELSE [seen EXCEPT !.sawPending = TRUE,
                                                   !.now = @ + 1, !.pc = "loop"]
    /\ UNCHANGED <<beginVars, wait, op>>

\* custom_webdriver.py:747-748 and 752-753: the prior URL is opened, and what
\* open_url returns is not looked at
DownloadsRestore ==
    /\ dl.pc \in {"restore_done", "restore_timeout"}
    /\ \E e \in OpenUrlEnds, elapsed \in OpenUrlElapsed(OpenUrlTimeout) :
          /\ nav' = open_url(nav, RestoredUrl(dl), e)
          /\ dl' = [dl EXCEPT !.now = @ + elapsed, !.pc = "done",
                              !.error = IF e.result = "raised" THEN "open_url" ELSE "-",
                              !.result = IF e.result = "raised" THEN "raised"
                                         ELSE IF dl.pc = "restore_done" THEN "True"
                                         ELSE "False"]
    /\ UNCHANGED <<beginVars, wait, op>>

InitDownloads ==
    /\ NoBegin
    /\ wait = NoWait /\ op = Idle
    /\ \E current \in Urls, timeout \in 0..MaxTimeout :
          /\ nav = Browser(current)
          /\ dl = DownloadsCall(timeout, current)

NextDownloads ==
    \/ DownloadsLoop
    \/ DownloadsProgress
    \/ DownloadsRestore

SpecDownloads == InitDownloads /\ [][NextDownloads]_vars

C11_WitnessDone ==
    /\ dl.result = "True" /\ dl.polls = 2
    /\ dl.url_before # DownloadsUrl
    /\ nav.lastGet = dl.url_before /\ nav.current = dl.url_before

\* C12: wait_all_downloads_end returns True exactly when a poll that began
\* before the timeout saw a list whose entries are all None (the empty list
\* too); when every poll sees an entry with a number it returns False, after
\* the timeout.
C12_AllDoneIffTrue ==
    /\ dl.result = "True" =>
          /\ dl.sawAllDone
          /\ \A i \in 1..Len(dl.progress) : dl.progress[i].t = "None"
    /\ dl.result = "False" =>
          /\ ~dl.sawAllDone
          /\ dl.now - dl.timer > dl.timeout
          /\ dl.observed => dl.sawPending
    /\ dl.sawAllDone => dl.result \in {"-", "True", "raised"}
    /\ (dl.sawAllDone /\ dl.result = "raised") => dl.error = "open_url"
    /\ (dl.pc \in {"loop", "progress"} /\ dl.observed) =>
          \E i \in 1..Len(dl.progress) : dl.progress[i].t = "int"

\* a second poll saw the only download finished and the call returned True
C12_Witness ==
    /\ dl.result = "True" /\ dl.sawPending /\ dl.progress = <<None, None>>

\* every poll saw a download in progress and the call returned False
C12_WitnessPending ==
    /\ dl.result = "False" /\ dl.polls >= 2 /\ dl.progress = <<None, Percent(0)>>

\* C30 as stated: when a poll of wait_all_downloads_end cannot load the
\* downloads page, so that get_download_all_progress returns False, the call
\* does not raise: the poll counts as not complete and the call ends with
\* True or False, the prior URL restored.
C30_Original ==
    /\ dl.error # "TypeError"
    /\ (dl.pc = "done" /\ dl.polls >= 1 /\ nav.result = "False" /\ nav.url = DownloadsUrl) =>
          dl.result \in {"True", "False"}

(***************************************************************************)
(* CustomWebDriver.wait_find_element.  `dom` is the first element the      *)
(* selector matches at the moment, which the page may replace between two  *)
(* of the three lookups of a poll.                                         *)
(***************************************************************************)
NoElement == [id |-> "None", displayed |-> FALSE, enabled |-> FALSE]
Element(id, displayed, enabled) == [id |-> id, displayed |-> displayed, enabled |-> enabled]
Doms ==
    {NoElement, Element("A", FALSE, TRUE), Element("A", TRUE, FALSE),
     Element("A", TRUE, TRUE), Element("B", TRUE, TRUE)}

\* what a lookup may meet besides the page: nothing, a WebDriverException
\* (caught at custom_webdriver.py:315, 320, 325), or another Exception
LookupErrors == {"-", "WebDriverException", "Exception"}

\* selenium's EC.element_to_be_clickable(locator): the element when it is
\* displayed and enabled; WebDriverWait raises TimeoutException otherwise,
\* which custom_webdriver.py:315-316 turn into None
element_to_be_clickable(dom) ==
    IF dom.id # "None" /\ dom.displayed /\ dom.enabled THEN dom.id ELSE "None"

\* selenium's EC.visibility_of(element) calls element.is_displayed(); it is
\* given the tuple (by, selector), so it raises AttributeError, which
\* custom_webdriver.py:320-321 turn into None
visibility_of(locator, dom) ==
    IF locator = "WebElement" /\ dom.id # "None" /\ dom.displayed THEN dom.id ELSE "None"

\* selenium's EC.presence_of_element_located(locator)
presence_of_element_located(dom) == dom.id

\* mutant: the presence lookup is preferred to the clickable one
Picked_PresenceFirst(visibility, clickable, presence) ==
    IF visibility # "None" THEN visibility
    ELSE IF presence # "None" THEN presence
    ELSE clickable
\* custom_webdriver.py:332-344: the element a poll returns, "None" to go on
Picked(visibility, clickable, presence) ==
    IF visibility # "None" THEN visibility
    ELSE IF clickable # "None" THEN clickable
    ELSE presence

FindCall(timeout, dom) ==
    [ pc |-> "wfe_loop", timeout |-> timeout, now |-> 0, timer |-> 0, dom |-> dom,
      clickable |-> "None", visibility |-> "None", presence |-> "None",
      polls |-> 0, changes |-> 0, error |-> "-", result |-> "-" ]

\* custom_webdriver.py:310-311 and 346-348
WaitFindElementLoop ==
    /\ op.pc = "wfe_loop"
    /\ op' = IF NotExpired(op.timer, op.timeout, op.now)
             THEN [op EXCEPT !.pc = "wfe_clickable"]
             ELSE [op EXCEPT !.pc = "done", !.result = "False"]
    /\ UNCHANGED <<beginVars, wait, nav, dl>>

\* the value a lookup leaves in its local, or the error that leaves the call
Lookup(o, local, found, error, next) ==
    IF error = "Exception"
    THEN [o EXCEPT !.pc = "done", !.result = "raised", !.error = error]
    ELSE [o EXCEPT ![local] = IF error = "-" THEN found ELSE "None", !.pc = next]

\* custom_webdriver.py:313-316, 328-330
WaitFindElementClickable ==
    /\ op.pc = "wfe_clickable"
    /\ \E error \in LookupErrors :
          op' = Lookup(op, "clickable", element_to_be_clickable(op.dom), error,
                       "wfe_visibility")
    /\ UNCHANGED <<beginVars, wait, nav, dl>>

\* custom_webdriver.py:318-321, 328-330
WaitFindElementVisibility ==
    /\ op.pc = "wfe_visibility"
    /\ \E error \in LookupErrors :
          op' = Lookup(op, "visibility", visibility_of("(by, selector)", op.dom), error,
                       "wfe_presence")
    /\ UNCHANGED <<beginVars, wait, nav, dl>>

\* custom_webdriver.py:323-326, 328-330
WaitFindElementPresence ==
    /\ op.pc = "wfe_presence"
    /\ \E error \in LookupErrors :
          op' = Lookup(op, "presence", presence_of_element_located(op.dom), error,
                       "wfe_pick")
    /\ UNCHANGED <<beginVars, wait, nav, dl>>

\* custom_webdriver.py:332-344; the three lookups of the poll took `latency`
WaitFindElementPick ==
    /\ op.pc = "wfe_pick"
    /\ \E latency \in 0..MaxLatency :
          /\ latency = 0 => op.polls < MaxFastPolls
          /\ LET r == Picked(op.visibility, op.clickable, op.presence)
                 polled == [op EXCEPT !.now = @ + latency, !.polls = @ + 1]
             IN  op' = IF r # "None"
                       THEN [polled EXCEPT !.pc = "done", !.result = r]
                       ELSE [polled EXCEPT !.pc = "wfe_loop"]
    /\ UNCHANGED <<beginVars, wait, nav, dl>>

\* the page replaces, shows, hides or removes the element
EnvDomChanges ==
    /\ op.pc \in {"wfe_loop", "wfe_clickable", "wfe_visibility", "wfe_presence"}
    /\ op.changes < MaxDomChanges
    /\ \E dom \in Doms \ {op.dom} : op' = [op EXCEPT !.dom = dom, !.changes = @ + 1]
    /\ UNCHANGED <<beginVars, wait, nav, dl>>

InitFind ==
    /\ NoBegin
    /\ wait = NoWait /\ nav = Idle /\ dl = Idle
    /\ \E timeout \in 0..MaxTimeout, dom \in Doms : op = FindCall(timeout, dom)

NextFind ==
    \/ WaitFindElementLoop
    \/ WaitFindElementClickable
    \/ WaitFindElementVisibility
    \/ WaitFindElementPresence
    \/ WaitFindElementPick
    \/ EnvDomChanges

SpecFind == InitFind /\ [][NextFind]_vars

\* the order C14 gives: visibility, then clickability, then presence
Preferred(o) ==
    IF o.visibility # "None" THEN o.visibility
    ELSE IF o.clickable # "None" THEN o.clickable
    ELSE o.presence

\* C14: a poll of wait_find_element returns the element of the visibility
\* condition if it yields one, else that of the clickability condition, else
\* that of the presence condition; when none yields an element the poll is
\* repeated, and False is returned once the timeout has elapsed.
C14_PreferenceOrder ==
    /\ op.result \notin {"-", "False", "raised"} =>
          op.result = Preferred(op) /\ op.result \in {"A", "B"}
    /\ (op.pc = "wfe_loop" /\ op.polls > 0) => Preferred(op) = "None"
    /\ (op.pc = "done" /\ op.result # "raised") =>
          (op.result = "False" <=> Preferred(op) = "None")
    /\ op.result = "False" => op.now - op.timer > op.timeout

\* the clickable element was returned though the presence lookup, after the
\* page changed, found another
C14_Witness ==
    /\ op.result = "A" /\ op.clickable = "A" /\ op.presence = "B"

\* no lookup found an element in three polls and the call returned False
C14_WitnessTimeout ==
    /\ op.result = "False" /\ op.polls >= 3

\* C15 as stated, for wait_page_state: when no poll saw the requested state
\* the call returns False, and it has returned by the timeout plus one poll
\* interval plus the time of one polled operation.
C15_Original ==
    (wait.pc = "done" /\ wait.result # "raised" /\ ~wait.matched) =>
        /\ wait.result = "False"
        /\ wait.now - wait.timer <= wait.timeout + 1 + MaxLatency

(***************************************************************************)
(* CustomWebDriver.wait_find_elements.  `dom` tells what the selector      *)
(* matches: "none", "hidden" elements or "visible" elements.  A local that *)
(* was never assigned is "unbound".                                        *)
(***************************************************************************)
\* custom_webdriver.py:381, 386  WebDriverWait(self, 1)
ElementsWait == 1

DomLists == {"none", "hidden", "visible"}

\* selenium's EC.presence_of_all_elements_located: the elements, when any
presence_of_all_elements_located(dom) == IF dom # "none" THEN "list" ELSE "None"
\* selenium's EC.visibility_of_all_elements_located: the elements, when any
\* and all displayed
visibility_of_all_elements_located(dom) == IF dom = "visible" THEN "list" ELSE "None"

\* custom_webdriver.py:380-388: a lookup that succeeds is assigned to r, and
\* only a lookup that fails assigns its own local, None
AllLookup(o, local, found, error) ==
    IF error = "-" /\ found # "None"
    THEN [o EXCEPT !.r = found, !.found = TRUE]
    ELSE [o EXCEPT ![local] = "None", !.now = @ + ElementsWait]

FindAllCall(timeout, dom) ==
    [ pc |-> "wfes_loop", timeout |-> timeout, now |-> 0, timer |-> 0, dom |-> dom,
      presence |-> "unbound", visibility |-> "unbound", r |-> "unbound",
      polls |-> 0, changes |-> 0, found |-> FALSE, error |-> "-", result |-> "-" ]

\* custom_webdriver.py:377-378 and 406-408
WaitFindElementsLoop ==
    /\ op.pc = "wfes_loop"
    /\ op' = IF NotExpired(op.timer, op.timeout, op.now)
             THEN [op EXCEPT !.pc = "wfes_presence"]
             ELSE [op EXCEPT !.pc = "done", !.result = "False"]
    /\ UNCHANGED <<beginVars, wait, nav, dl>>

\* custom_webdriver.py:380-383, 390-392
WaitFindElementsPresence ==
    /\ op.pc = "wfes_presence"
    /\ \E error \in LookupErrors :
          op' = IF error = "Exception"
                THEN [op EXCEPT !.pc = "done", !.result = "raised", !.error = error]
                ELSE [AllLookup(op, "presence", presence_of_all_elements_located(op.dom),
                                error)
                        EXCEPT !.pc = "wfes_visibility"]
    /\ UNCHANGED <<beginVars, wait, nav, dl>>

\* custom_webdriver.py:385-388, 390-392
WaitFindElementsVisibility ==
    /\ op.pc = "wfes_visibility"
    /\ \E error \in LookupErrors :
          op' = IF error = "Exception"
                THEN [op EXCEPT !.pc = "done", !.result = "raised", !.error = error]
                ELSE [AllLookup(op, "visibility",
                                visibility_of_all_elements_located(op.dom), error)
                        EXCEPT !.pc = "wfes_pick"]
    /\ UNCHANGED <<beginVars, wait, nav, dl>>

\* custom_webdriver.py:395-404: reading a local that was never assigned
\* raises UnboundLocalError; the two lookups of the poll took `latency` when
\* they found elements
WaitFindElementsPick ==
    /\ op.pc = "wfes_pick"
    /\ \E latency \in 0..MaxLatency :
          /\ latency = 0 => op.polls < MaxFastPolls
          /\ LET polled == [op EXCEPT !.now = @ + latency, !.polls = @ + 1]
             IN  op' =
                   CASE op.visibility = "unbound" ->
                          [polled EXCEPT !.pc = "done", !.result = "raised",
                                         !.error = "UnboundLocalError"]
                     [] op.visibility # "None" ->
                          [polled EXCEPT !.pc = "done", !.result = op.visibility]
                     [] op.presence = "unbound" ->
                          [polled EXCEPT !.pc = "done", !.result = "raised",
                                         !.error = "UnboundLocalError"]
                     [] op.presence # "None" ->
                          [polled EXCEPT !.pc = "done", !.result = op.presence]
                     [] OTHER -> [polled EXCEPT !.pc = "wfes_loop"]
    /\ UNCHANGED <<beginVars, wait, nav, dl>>

\* the page adds, shows, hides or removes the elements
EnvDomListChanges ==
    /\ op.pc \in {"wfes_loop", "wfes_presence", "wfes_visibility"}
    /\ op.changes < MaxDomChanges
    /\ \E dom \in DomLists \ {op.dom} : op' = [op EXCEPT !.dom = dom, !.changes = @ + 1]
    /\ UNCHANGED <<beginVars, wait, nav, dl>>

InitFindAll ==
    /\ NoBegin
    /\ wait = NoWait /\ nav = Idle /\ dl = Idle
    /\ \E timeout \in 0..MaxTimeout, dom \in DomLists : op = FindAllCall(timeout, dom)

NextFindAll ==
    \/ WaitFindElementsLoop
    \/ WaitFindElementsPresence
    \/ WaitFindElementsVisibility
    \/ WaitFindElementsPick
    \/ EnvDomListChanges

SpecFindAll == InitFindAll /\ [][NextFindAll]_vars

\* C16 as stated: wait_find_elements returns the list of elements when the
\* presence-of-all or the visibility-of-all condition was satisfied within
\* the timeout, returns False when the timeout elapsed with neither
\* satisfied, and raises only for unexpected errors of a lookup.
C16_Original ==
    op.pc = "done" =>
        /\ op.result = "raised" => op.error = "Exception"
        /\ (op.found /\ op.result # "raised") => op.result = "list"
        /\ op.result = "False" => ~op.found /\ op.now - op.timer > op.timeout

(***************************************************************************)
(* CustomWebDriver.find_and_fill_element.  `value` and `text` are the      *)
(* value attribute and the text of the element the selector or the script  *)
(* finds; fill_element and the page change them.                           *)
(***************************************************************************)
Texts == {"", "abc", "ab"}

\* custom_webdriver.py:626-635: how the element is looked for
FindModes == {"by", "script", "neither"}

\* what the lookup of custom_webdriver.py:627 or 631 hands back:
\* wait_find_element an element or False, wait_execute_script with
\* force_wait_webelement an element, a list holding elements, or False
FindResults(mode) ==
    IF mode = "by" THEN {"WebElement", "False"}
    ELSE {"WebElement", "list[WebElement]", "False"}

\* custom_webdriver.py:637  isinstance(element, WebElement)
IsWebElement(element) == element = "WebElement"

\* custom_webdriver.py:645: the validation of the text
TextFilled(value, text, texto) == value = texto \/ text = texto

\* mutant: a True of fill_element is returned
AfterFill_Trusted(o, r) ==
    IF r = "True"
    THEN [o EXCEPT !.fill_element = r, !.pc = "done", !.result = "True"]
    ELSE [o EXCEPT !.fill_element = r, !.pc = "ffe_loop"]
\* custom_webdriver.py:652-661: fill_element returned r, which is dropped,
\* and the loop goes on to validate
AfterFill(o, r) == [o EXCEPT !.fill_element = r, !.pc = "ffe_loop"]

FillCall(mode, texto, timeout, value, text) ==
    [ pc |-> "ffe_loop", mode |-> mode, texto |-> texto, timeout |-> timeout,
      now |-> 0, timer |-> 0, value |-> value, text |-> text,
      element |-> "-", seen_value |-> "-", seen_text |-> "-", fill_element |-> "-",
      observed |-> FALSE, polls |-> 0, fills |-> 0, changes |-> 0,
      error |-> "-", result |-> "-" ]

\* custom_webdriver.py:623-624 and 663-665
FindAndFillLoop ==
    /\ op.pc = "ffe_loop"
    /\ op' = IF NotExpired(op.timer, op.timeout, op.now)
             THEN [op EXCEPT !.pc = "ffe_find"]
             ELSE [op EXCEPT !.pc = "done", !.result = "False"]
    /\ UNCHANGED <<beginVars, wait, nav, dl>>

\* custom_webdriver.py:626-640
FindAndFillFind ==
    /\ op.pc = "ffe_find"
    /\ IF op.mode = "neither"
       THEN op' = [op EXCEPT !.pc = "done", !.result = "raised", !.error = "KeyError"]
       ELSE \E latency \in 0..MaxLatency, error \in {"-", "Exception"},
               element \in FindResults(op.mode) :
               /\ latency = 0 => op.polls < MaxFastPolls
               /\ LET polled == [op EXCEPT !.now = @ + latency, !.polls = @ + 1,
                                           !.seen_value = "-", !.seen_text = "-",
                                           !.fill_element = "-"]
                  IN  op' = IF error # "-"
                            THEN [polled EXCEPT !.pc = "done", !.result = "raised",
                                                !.error = error]
                            ELSE IF IsWebElement(element)
                            THEN [polled EXCEPT !.element = element, !.pc = "ffe_validate"]
                            ELSE [polled EXCEPT !.element = element, !.pc = "ffe_loop"]
    /\ UNCHANGED <<beginVars, wait, nav, dl>>

\* custom_webdriver.py:645-649; reading the element may raise (it went stale)
FindAndFillValidate ==
    /\ op.pc = "ffe_validate"
    /\ \E error \in {"-", "StaleElementReferenceException"} :
          LET seen == [op EXCEPT !.seen_value = op.value, !.seen_text = op.text]
          IN  op' = IF error # "-"
                    THEN [op EXCEPT !.pc = "done", !.result = "raised", !.error = error]
                    ELSE IF TextFilled(op.value, op.text, op.texto)
                    THEN [seen EXCEPT !.observed = TRUE, !.pc = "done", !.result = "True"]
                    ELSE [seen EXCEPT !.pc = "ffe_fill"]
    /\ UNCHANGED <<beginVars, wait, nav, dl>>

\* custom_webdriver.py:652-661 with fill_element (custom_webdriver.py:540-582),
\* which catches what its commands raise and returns True or False; the
\* field holds the text, part of it, or what it held
FindAndFillFill ==
    /\ op.pc = "ffe_fill"
    /\ \E r \in {"True", "False"}, value \in {op.texto, "ab", op.value} :
          op' = [AfterFill(op, r) EXCEPT !.value = value, !.fills = @ + 1]
    /\ UNCHANGED <<beginVars, wait, nav, dl>>

\* the page rewrites the field
EnvFieldChanges ==
    /\ op.pc \in {"ffe_loop", "ffe_find", "ffe_validate", "ffe_fill"}
    /\ op.changes < MaxDomChanges
    /\ \E value \in Texts \ {op.value} :
          op' = [op EXCEPT !.value = value, !.changes = @ + 1]
    /\ UNCHANGED <<beginVars, wait, nav, dl>>

InitFill ==
    /\ NoBegin
    /\ wait = NoWait /\ nav = Idle /\ dl = Idle
    /\ \E mode \in FindModes, timeout \in 0..MaxTimeout, value \in Texts, text \in {"", "abc"} :
          op = FillCall(mode, "abc", timeout, value, text)

NextFill ==
    \/ FindAndFillLoop
    \/ FindAndFillFind
    \/ FindAndFillValidate
    \/ FindAndFillFill
    \/ EnvFieldChanges

SpecFill == InitFill /\ [][NextFill]_vars

\* C19: find_and_fill_element returns True only in a poll in which it found
\* the element and saw its value attribute or its text equal to the text
\* asked for; what fill_element returns never makes the call return True; and
\* when the text is never seen the call returns False, after the timeout.
C19_TrueOnlyWhenObserved ==
    /\ op.result = "True" =>
          /\ op.element = "WebElement"
          /\ op.seen_value = op.texto \/ op.seen_text = op.texto
          /\ op.fill_element = "-"
          /\ op.observed
    /\ op.fill_element # "-" => op.result \in {"-", "False"}
    /\ op.observed => op.result = "True"
    /\ (op.pc = "done" /\ op.result # "raised" /\ ~op.observed) =>
          op.result = "False" /\ op.now - op.timer > op.timeout

\* fill_element filled the field and the next poll saw the text
C19_Witness ==
    /\ op.result = "True" /\ op.fills >= 1 /\ op.seen_value = "abc" /\ op.seen_text = ""

\* fill_element returned True, the field never held the text, and the call
\* returned False
C19_WitnessTimeout ==
    /\ op.result = "False" /\ op.fills >= 1 /\ op.value = "ab"
(***************************************************************************)
(* CustomWebDriver.find_and_click_element and click_element.  A script is  *)
(* a sequence of pieces of text, ".click()" being one such piece; the      *)
(* lookups are taken as the calls they are, by what they return.           *)
(***************************************************************************)
MaxScriptLen == 2

ClickToken == ".click()"
ScriptTokens == {"document.querySelector('#go')", ClickToken}

\* the scripts a caller may pass; the empty one is falsy, as None is
ClickScripts == UNION {[1..n -> ScriptTokens] : n \in 0..MaxScriptLen}

NotClick(t) == t # ClickToken

\* mutant: the script is passed on as it was given
WithoutClick_Kept(script) == script

\* custom_webdriver.py:482-485  kwargs["script"].replace(".click()", "")
WithoutClick(script) == SelectSeq(script, NotClick)

\* custom_webdriver.py:476-490: the branch the keyword arguments select
LookupMode(kwargs) ==
    IF kwargs.by # "" /\ kwargs.selector # "" THEN "by"
    ELSE IF kwargs.script # <<>> THEN "script"
    ELSE "neither"

ClickCall(kwargs, timeout) ==
    [ pc |-> "fce_lookup", kwargs |-> kwargs, timeout |-> timeout, now |-> 0,
      executed |-> <<>>, element |-> "-", commands |-> 0, click_calls |-> 0,
      clicks |-> 0, error |-> "-", result |-> "-" ]

\* custom_webdriver.py:476-497: the lookup, and the return when it found
\* nothing.  wait_find_element and wait_execute_script return False once
\* their timeout has elapsed, and what they raise is not caught here.
FindAndClickLookup ==
    /\ op.pc = "fce_lookup"
    /\ LET mode == LookupMode(op.kwargs)
       IN  IF mode = "neither"
           THEN op' = [op EXCEPT !.pc = "done", !.result = "raised", !.error = "KeyError"]
           ELSE \E latency \in 0..MaxLatency, error \in {"-", "Exception"},
                   element \in FindResults(mode) :
                   LET sent == [op EXCEPT
                                  !.commands = @ + 1,
                                  !.executed = IF mode = "script"
                                               THEN WithoutClick(op.kwargs.script)
                                               ELSE <<>>,
                                  !.now = IF element = "False" /\ error = "-"
                                          THEN op.timeout + 1 ELSE latency]
                   IN  op' = IF error # "-"
                             THEN [sent EXCEPT !.pc = "done", !.result = "raised",
                                               !.error = error]
                             ELSE IF element = "False"
                             THEN [sent EXCEPT !.element = element, !.pc = "done",
                                               !.result = "False"]
                             ELSE [sent EXCEPT !.element = element, !.pc = "fce_click"]
    /\ UNCHANGED <<beginVars, wait, nav, dl>>

\* custom_webdriver.py:502-505 with click_element (custom_webdriver.py:435-449):
\* the click command, by script or by ActionChains, succeeds or raises, and
\* click_element turns what it raises into False.  A list is no element: the
\* command for it always raises.
FindAndClickClick ==
    /\ op.pc = "fce_click"
    /\ \E clicked \in BOOLEAN :
          LET done == clicked /\ IsWebElement(op.element)
          IN  op' = [op EXCEPT !.commands = @ + 1, !.click_calls = @ + 1,
                               !.clicks = @ + (IF done THEN 1 ELSE 0),
                               !.pc = "done",
                               !.result = IF done THEN "True" ELSE "False"]
    /\ UNCHANGED <<beginVars, wait, nav, dl>>

InitClick ==
    /\ NoBegin
    /\ wait = NoWait /\ nav = Idle /\ dl = Idle
    /\ \E by \in {"", "css selector"}, selector \in {"", "#go"},
          script \in ClickScripts, js_click \in BOOLEAN, timeout \in 0..MaxTimeout :
          op = ClickCall([by |-> by, selector |-> selector, script |-> script,
                          js_click |-> js_click], timeout)

NextClick ==
    \/ FindAndClickLookup
    \/ FindAndClickClick

SpecClick == InitClick /\ [][NextClick]_vars

\* the script find_and_click_element was given holds a ".click()"
HasClickToken(script) == \E i \in 1..Len(script) : script[i] = ClickToken

\* C31: find_and_click_element issues a click only after its lookup produced
\* an element: wait_find_element when by and selector are given, otherwise
\* wait_execute_script on the script without any ".click()"; when the lookup
\* finds nothing within the timeout the call returns False and no click is
\* issued; with neither by and selector nor a script it raises KeyError
\* before any command is sent to the browser.
C31_ClickAfterLookup ==
    LET k == op.kwargs
        locator == k.by # "" /\ k.selector # ""
    IN  /\ op.click_calls >= 1 =>
              /\ op.element \in {"WebElement", "list[WebElement]"}
              /\ op.commands = 2
        /\ op.clicks >= 1 => op.element = "WebElement" /\ op.result = "True"
        /\ op.result = "True" => op.clicks = 1
        /\ op.element = "False" =>
              /\ op.pc = "done" /\ op.result = "False"
              /\ op.click_calls = 0 /\ op.clicks = 0
              /\ op.now > op.timeout
        /\ (~locator /\ k.script = <<>>) =>
              /\ op.commands = 0 /\ op.click_calls = 0
              /\ op.pc = "done" => op.result = "raised" /\ op.error = "KeyError"
        /\ (locator /\ op.commands >= 1) => op.executed = <<>>
        /\ (~locator /\ k.script # <<>> /\ op.commands >= 1) =>
              /\ ~HasClickToken(op.executed)
              /\ \A i \in 1..Len(op.executed) : \E j \in i..Len(k.script) :
                    op.executed[i] = k.script[j]
              /\ Len(op.executed) =
                    Cardinality({i \in 1..Len(k.script) : k.script[i] # ClickToken})

\* the script's ".click()" was removed, the lookup found the element, and
\* the click was made
C31_Witness ==
    /\ op.kwargs.by = "" /\ HasClickToken(op.kwargs.script)
    /\ op.executed = <<"document.querySelector('#go')">>
    /\ op.element = "WebElement" /\ op.clicks = 1 /\ op.result = "True"

\* wait_find_element found nothing: False, and no click
C31_WitnessNotFound ==
    /\ op.kwargs.by # "" /\ op.kwargs.selector # ""
    /\ op.element = "False" /\ op.result = "False" /\ op.click_calls = 0

\* neither a locator nor a script: KeyError
C31_WitnessKeyError ==
    /\ op.kwargs.by # "" /\ op.kwargs.selector = "" /\ op.kwargs.script = <<>>
    /\ op.error = "KeyError" /\ op.commands = 0

(***************************************************************************)
(* CustomWebDriver.fill_element.  `sent` is what the current attempt has   *)
(* sent to the element, `text` the text as a sequence of characters.       *)
(***************************************************************************)
FillTexts == {<<>>, <<"a">>}

\* what element.get_attribute("readonly") hands back: the attribute's text
\* or None, never the boolean True
ReadonlyValues == {"None", "true"}

\* custom_webdriver.py:545  ... is True
IsTrue(v) == v = "True"

\* custom_webdriver.py:562-565: BACKSPACE and DELETE, len(text) * 2 times
Erasing(text) ==
    [i \in 1..(4 * Len(text)) |-> IF i % 2 = 1 THEN "BACKSPACE" ELSE "DELETE"]

\* mutant: the field is not cleared
FillCommands_NoClear(text, clear_before_fill, tab_after_fill) ==
    <<"NULL", "text">> \o (IF tab_after_fill THEN <<"TAB">> ELSE <<>>)

\* custom_webdriver.py:558-571: the commands of one attempt, in order
FillCommands(text, clear_before_fill, tab_after_fill) ==
    <<"NULL">>
        \o (IF clear_before_fill
            THEN <<"clear()", "value = ''">> \o Erasing(text)
            ELSE <<>>)
        \o <<"text">>
        \o (IF tab_after_fill THEN <<"TAB">> ELSE <<>>)

FillElementCall(text, timeout, clear_before_fill, tab_after_fill) ==
    [ pc |-> "fe_loop", text |-> text, timeout |-> timeout,
      clear_before_fill |-> clear_before_fill, tab_after_fill |-> tab_after_fill,
      now |-> 0, timer |-> 0, attempts |-> 0, sent |-> <<>>, last |-> "-",
      at |-> "-", result |-> "-" ]

\* custom_webdriver.py:540-541 and 580-582
FillElementLoop ==
    /\ op.pc = "fe_loop"
    /\ op' = IF NotExpired(op.timer, op.timeout, op.now)
             THEN [op EXCEPT !.pc = "fe_check", !.attempts = @ + 1, !.sent = <<>>]
             ELSE [op EXCEPT !.pc = "done", !.result = "False"]
    /\ UNCHANGED <<beginVars, wait, nav, dl>>

\* custom_webdriver.py:543-554: the read-only check
FillElementCheck ==
    /\ op.pc = "fe_check"
    /\ \E latency \in 0..MaxLatency,
          out \in ReadonlyValues \cup {"StaleElementReferenceException", "Exception"} :
          LET read == [op EXCEPT !.now = @ + latency, !.last = out, !.at = "check"]
          IN  op' =
                CASE out = "StaleElementReferenceException" ->
                       [read EXCEPT !.pc = "done", !.result = "False"]
                  [] out = "Exception" ->
                       [read EXCEPT !.now = @ + 1, !.pc = "fe_loop"]
                  [] OTHER ->
                       IF IsTrue(out)
                       THEN [read EXCEPT !.now = @ + 1, !.pc = "fe_loop"]
                       ELSE [read EXCEPT !.pc = "fe_fill"]
    /\ UNCHANGED <<beginVars, wait, nav, dl>>

\* custom_webdriver.py:557-578: the next command of the attempt; whatever
\* it raises is caught, and the attempt is made again a second later
FillElementCommand ==
    /\ op.pc = "fe_fill"
    /\ \E out \in {"ok", "StaleElementReferenceException", "Exception"} :
          LET commands == FillCommands(op.text, op.clear_before_fill, op.tab_after_fill)
              sent == Append(op.sent, commands[Len(op.sent) + 1])
          IN  op' =
                IF out # "ok"
                THEN [op EXCEPT !.last = out, !.at = "fill", !.now = @ + 1,
                                !.pc = "fe_loop"]
                ELSE IF Len(sent) = Len(commands)
                THEN [op EXCEPT !.last = out, !.at = "fill", !.sent = sent,
                                !.pc = "done", !.result = "True"]
                ELSE [op EXCEPT !.last = out, !.at = "fill", !.sent = sent]
    /\ UNCHANGED <<beginVars, wait, nav, dl>>

InitFillElement ==
    /\ NoBegin
    /\ wait = NoWait /\ nav = Idle /\ dl = Idle
    /\ \E text \in FillTexts, timeout \in 0..MaxTimeout,
          clear_before_fill \in BOOLEAN, tab_after_fill \in BOOLEAN :
          op = FillElementCall(text, timeout, clear_before_fill, tab_after_fill)

NextFillElement ==
    \/ FillElementLoop
    \/ FillElementCheck
    \/ FillElementCommand

SpecFillElement == InitFillElement /\ [][NextFillElement]_vars

\* how often command k is in the sequence s
Sent(s, k) == Cardinality({i \in 1..Len(s) : s[i] = k})

\* the attempt sent the text, after the clearing steps when asked for and
\* before TAB when asked for
TextSent ==
    LET s == op.sent
        n == Len(s)
        t == IF op.tab_after_fill THEN n - 1 ELSE n
    IN  /\ t >= 2 /\ s[1] = "NULL" /\ s[t] = "text" /\ Sent(s, "text") = 1
        /\ op.tab_after_fill <=> s[n] = "TAB"
        /\ IF op.clear_before_fill
           THEN /\ t = 4 + 4 * Len(op.text)
                /\ s[2] = "clear()" /\ s[3] = "value = ''"
                /\ \A i \in 4..(t - 1) :
                      s[i] = IF i % 2 = 0 THEN "BACKSPACE" ELSE "DELETE"
           ELSE t = 2

\* C32: fill_element returns True only after the attempt it returns from has
\* sent the text, after the clearing steps when clear_before_fill is set and
\* before TAB when tab_after_fill is set; a stale element at the read-only
\* check makes it return False at once, the attempt having sent no key; any
\* other error is followed by another attempt until the timeout, when False
\* is returned.
C32_TrueAfterTextSent ==
    /\ op.result # "raised"
    /\ op.result = "True" => TextSent /\ op.last = "ok"
    /\ (op.at = "check" /\ op.last = "StaleElementReferenceException") =>
          op.pc = "done" /\ op.result = "False" /\ op.sent = <<>>
    /\ (op.last \in {"Exception", "StaleElementReferenceException"}
           /\ ~(op.at = "check" /\ op.last = "StaleElementReferenceException")) =>
          /\ op.result \in {"-", "False"}
          /\ op.pc = "done" => op.now - op.timer > op.timeout
    /\ op.result = "False" =>
          \/ op.at = "check" /\ op.last = "StaleElementReferenceException"
          \/ op.now - op.timer > op.timeout

\* the second attempt cleared the field, sent the text and TAB
C32_Witness ==
    /\ op.result = "True" /\ op.attempts = 2
    /\ op.clear_before_fill /\ op.tab_after_fill /\ op.text = <<"a">>
    /\ op.sent = <<"NULL", "clear()", "value = ''", "BACKSPACE", "DELETE",
                   "BACKSPACE", "DELETE", "text", "TAB">>

\* the element was stale at the read-only check of the first attempt
C32_WitnessStale ==
    /\ op.result = "False" /\ op.attempts = 1 /\ op.sent = <<>>
    /\ op.last = "StaleElementReferenceException" /\ op.now - op.timer <= op.timeout

\* every attempt failed while filling, until the timeout
C32_WitnessTimeout ==
    /\ op.result = "False" /\ op.attempts >= 2
    /\ op.at = "fill" /\ op.last = "Exception"

(***************************************************************************)
(* CustomWebDriver.scroll_down.  `height` is document.body.scrollHeight of *)
(* the page, `measured` the heights the call has read, in order.           *)
(***************************************************************************)
MaxHeight == 2

\* the heights a page may have
Heights == 1..MaxHeight

\* mutant: the height of the page as the call began is kept
NextLastHeight_Kept(last_height, new_height) == last_height

\* custom_webdriver.py:125  last_height = new_height
NextLastHeight(last_height, new_height) == new_height

\* custom_webdriver.py:121  if new_height == last_height
FullyScrolled(last_height, new_height) == new_height = last_height

ScrollCall(scroll_sleep, timeout, height) ==
    [ pc |-> "sd_start", scroll_sleep |-> scroll_sleep, timeout |-> timeout,
      now |-> 0, timer |-> 0, height |-> height, last_height |-> 0,
      measured |-> <<>>, scrolls |-> 0, polls |-> 0, error |-> "-", result |-> "-" ]

\* custom_webdriver.py:100-102: the first reading, outside the try block
ScrollDownStart ==
    /\ op.pc = "sd_start"
    /\ \E error \in {"-", "WebDriverException"} :
          op' = IF error # "-"
                THEN [op EXCEPT !.pc = "done", !.result = "raised", !.error = error]
                ELSE [op EXCEPT !.last_height = op.height,
                                !.measured = <<op.height>>, !.pc = "sd_loop"]
    /\ UNCHANGED <<beginVars, wait, nav, dl>>

\* custom_webdriver.py:103 and 128-131
ScrollDownLoop ==
    /\ op.pc = "sd_loop"
    /\ op' = IF NotExpired(op.timer, op.timeout, op.now)
             THEN [op EXCEPT !.pc = "sd_scroll"]
             ELSE [op EXCEPT !.pc = "done", !.result = "False"]
    /\ UNCHANGED <<beginVars, wait, nav, dl>>

\* custom_webdriver.py:104-126: one pass of the loop.  The scroll may change
\* the page's height; a WebDriverException of the scroll, of the page-state
\* wait or of the reading is caught and the loop goes on without a sleep;
\* any other exception leaves the call.
ScrollDownScroll ==
    /\ op.pc = "sd_scroll"
    /\ \E latency \in 0..MaxLatency, height \in Heights,
          error \in {"-", "scroll: WebDriverException", "read: WebDriverException",
                     "Exception"} :
          LET slept == IF error = "scroll: WebDriverException" THEN 0
                       ELSE op.scroll_sleep
              page == IF error = "scroll: WebDriverException" THEN op.height ELSE height
              pass == [op EXCEPT !.now = @ + latency + slept, !.height = page,
                                 !.polls = @ + 1,
                                 !.scrolls = @ + (IF slept = 0 /\ error # "-" THEN 0 ELSE 1)]
          IN  /\ latency + slept = 0 => op.polls < MaxFastPolls
              /\ op' =
                   CASE error = "Exception" ->
                          [pass EXCEPT !.pc = "done", !.result = "raised", !.error = error]
                     [] error # "-" ->
                          [pass EXCEPT !.error = error, !.pc = "sd_loop"]
                     [] OTHER ->
                          LET read == [pass EXCEPT !.measured = Append(@, page),
                                                   !.error = "-"]
                          IN  IF FullyScrolled(op.last_height, page)
                              THEN [read EXCEPT !.pc = "done", !.result = "True"]
                              ELSE [read EXCEPT
                                      !.last_height = NextLastHeight(@, page),
                                      !.pc = "sd_loop"]
    /\ UNCHANGED <<beginVars, wait, nav, dl>>

InitScroll ==
    /\ NoBegin
    /\ wait = NoWait /\ nav = Idle /\ dl = Idle
    /\ \E scroll_sleep \in 0..1, timeout \in 0..MaxTimeout, height \in Heights :
          op = ScrollCall(scroll_sleep, timeout, height)

NextScroll ==
    \/ ScrollDownStart
    \/ ScrollDownLoop
    \/ ScrollDownScroll

SpecScroll == InitScroll /\ [][NextScroll]_vars

\* the last two heights read are equal
LastTwoEqual ==
    LET n == Len(op.measured)
    IN  n >= 2 /\ op.measured[n] = op.measured[n - 1]

C33_WitnessAfterError ==
    /\ op.result = "True" /\ op.measured = <<1, 1>> /\ op.polls = 2

\* the page changed with every scroll until the timeout
C33_WitnessTimeout ==
    /\ op.result = "False" /\ Len(op.measured) >= 3

(***************************************************************************)
(* Two programs that call begin() on one id.json and one browser family.   *)
(* Each is a process of its own with its own ReusableChrome; they share    *)
(* the file, the process table and the driver's port.  Nothing in begin()  *)
(* takes a lock (chrome.py:137-193), so their statement groups interleave  *)
(* freely.                                                                 *)
(***************************************************************************)
\* what the two programs may find: no file or a recorded handle, no driver
\* or the driver and browser of session 1
ConcurrentStores ==
    { [exists |-> FALSE, text |-> InvalidText],
      [exists |-> TRUE, text |-> json_dump(Handle(Url(DefaultPort), Sid(1)))] }
ConcurrentEnvs ==
    { [procs |-> {Notepad}, sessions |-> {}],
      [procs |-> {Notepad, DriverProc(DefaultPort, "match"), BrowserProc(DefaultPort)},
       sessions |-> {1}] }

\* chrome.py:38: the attach_retries a constructor call without the argument gets
DefaultAttachRetries == 2

InitConcurrent ==
    /\ self = [c \in Callers |-> NewObject(DefaultAttachRetries, NoOptions, "match")]
    /\ hist = [c \in Callers |-> NoHistory]
    /\ store \in ConcurrentStores
    /\ \E e \in ConcurrentEnvs : procs = e.procs /\ sessions = e.sessions
    /\ reachable = TRUE
    /\ dirState = "absent"
    /\ nextSid = 2
    /\ envEvents = 0
    /\ start = [store |-> store, procs |-> procs, sessions |-> sessions,
                nextSid |-> nextSid, self |-> self]
    /\ wait = NoWait
    /\ nav = Idle /\ dl = Idle /\ op = Idle

NextConcurrent ==
    \/ \E c \in Callers : BeginCreateStore(c)
    \/ \E c \in Callers : BeginLoad(c)
    \/ \E c \in Callers : BeginLoop(c)
    \/ \E c \in Callers : BeginKill(c)
    \/ \E c \in Callers : BeginLaunch(c)
    \/ \E c \in Callers : BeginPersist(c)
    \/ \E c \in Callers : AttachCheck(c)
    \/ \E c \in Callers : AttachOptions(c)
    \/ \E c \in Callers : AttachConnect(c)
    \/ \E c \in Callers : AttachRebind(c)
    \/ \E c \in Callers : AttachValidate(c)
    \/ \E c \in Callers : AttachWait(c)

SpecConcurrent == InitConcurrent /\ [][NextConcurrent]_vars

ReturnedTrue(c) == self[c].pc = "done" /\ self[c].result = "True"
SessionAlive(c, ss) == self[c].session_id.t = "session" /\ self[c].session_id.n \in ss
HandleOf(c) == Handle(self[c].command_executor, self[c].session_id)

\* a step in which caller c runs end_all_driver_processes inside begin()
EndAllStep(c) == hist'[c].kills = hist[c].kills + 1

\* the session caller d attached to ends in this step
LosesSession(d) ==
    /\ self[d].attached
    /\ SessionAlive(d, sessions)
    /\ ~SessionAlive(d, sessions')

\* C34: begin() is not safe to run concurrently on one handle store.  Of
\* two interleaved calls, the session one call attached to is ended only
\* by the other call's end_all_driver_processes, and that step tells the
\* first call nothing: its object, its result True and the store stay as
\* they are.  The step in which a call returns True leaves in the store
\* exactly that call's handle, whatever the other call wrote before.  So
\* the state of C34_Witness is reachable: both calls returned True, the
\* browser of one was terminated by the other's end_all_driver_processes,
\* and the store names only the last writer's session.
C34_NoMutualExclusion ==
    [][ /\ \A d \in Callers :
              LosesSession(d) =>
                 /\ \E c \in Callers \ {d} : EndAllStep(c)
                 /\ self'[d] = self[d]
                 /\ store' = store
        /\ \A c \in Callers :
              (self[c].pc = "persist" /\ self'[c].pc = "done") =>
                 /\ self'[c].result = "True"
                 /\ store'.text = json_dump(HandleOf(c))
                 /\ \A d \in Callers \ {c} : self'[d] = self[d]
      ]_vars

\* both calls returned True, caller 1's browser was terminated by caller
\* 2's end_all_driver_processes, and the store names caller 2's session only
C34_Witness ==
    /\ ReturnedTrue(1) /\ ReturnedTrue(2)
    /\ hist[1].successes = 1 /\ hist[2].successes = 1
    /\ ~SessionAlive(1, sessions)
    /\ SessionAlive(2, sessions)
    /\ hist[2].kills > 0
    /\ BrowserProc(DefaultPort) \in hist[2].lastEnd.before
    /\ BrowserProc(DefaultPort) \notin hist[2].lastEnd.after
    /\ store.text = json_dump(HandleOf(2))
    /\ self[1].session_id # self[2].session_id
    /\ \A e \in store.text.obj : e.v # self[1].session_id

\* the same with the file written in the other order: the store names the
\* session that was terminated
C34_WitnessDeadHandle ==
    /\ ReturnedTrue(1) /\ ReturnedTrue(2)
    /\ ~SessionAlive(1, sessions)
    /\ SessionAlive(2, sessions)
    /\ store.text = json_dump(HandleOf(1))
    /\ self[1].session_id # self[2].session_id

\* both calls returned True for one and the same driver, no process ended
C34_WitnessShared ==
    /\ ReturnedTrue(1) /\ ReturnedTrue(2)
    /\ SessionAlive(1, sessions) /\ SessionAlive(2, sessions)
    /\ self[1].session_id # self[2].session_id

(***************************************************************************)
(* ReusableFirefox.begin (firefox.py).  The class derives from             *)
(* CustomWebDriver only and defines __init__, end_all_driver_processes and *)
(* begin: the any_chrome_process_exists and _attach that begin() names     *)
(* exist nowhere, so reading either raises AttributeError.                 *)
(***************************************************************************)
FirefoxExe == <<"firefox", ".exe">>
GeckodriverExe == <<"gecko", "driver", ".exe">>
\* firefox.py:50, 55  "firefox" in p.name()
FirefoxPattern == <<"firefox">>

\* a firefox window, and the driver process of an earlier run
FirefoxProc == [name |-> FirefoxExe, port |-> 0, ver |-> "-"]
GeckodriverProc == [name |-> GeckodriverExe, port |-> DefaultPort, ver |-> "match"]
FirefoxEnvs == {{Notepad} \cup ps : ps \in SUBSET {FirefoxProc, GeckodriverProc}}

\* firefox.py:49-52: the processes handed to taskkill
FirefoxMatched(ps) == {p \in ps : StrIn(FirefoxPattern, p.name)}
\* firefox.py:54-58: the value end_all_driver_processes returns
FirefoxEndAllReturn(ps) == ~(\E p \in ps : StrIn(FirefoxPattern, p.name))

\* mutant: the attach is tried when either entry of the handle is there
HandleComplete_Either(s) ==
    Truthy(s.last_command_executor) \/ Truthy(s.last_session_id)

\* firefox.py:104: the operands of `and` evaluated before
\* self.any_chrome_process_exists is read
HandleComplete(s) ==
    Truthy(s.last_command_executor) /\ Truthy(s.last_session_id)

\* firefox.py:77-82
FirefoxCreateStore(c) ==
    /\ self[c].pc = "start"
    /\ store' = IF ~store.exists
                THEN [exists |-> TRUE, text |-> json_dump(EmptyDict)]
                ELSE store
    /\ Set(c, [self[c] EXCEPT !.pc = "load"])
    /\ Note(c, [hist[c] EXCEPT !.created = ~store.exists])
    /\ UNCHANGED <<procs, sessions, reachable, dirState, nextSid, envEvents, start, waitVars>>

\* firefox.py:86-95: JSONDecodeError gives dict(); .get on what is not a
\* dict raises AttributeError
FirefoxLoad(c) ==
    /\ self[c].pc = "load"
    /\ LET r == json_load(store.text)
           chrome_ids == IF r.ok THEN r.val ELSE EmptyDict
       IN  IF r.ok /\ ~r.isdict
           THEN Raise(c, "load")
           ELSE /\ Set(c, [self[c] EXCEPT
                        !.last_session_id = DictGet(chrome_ids, "session_id"),
                        !.last_command_executor = DictGet(chrome_ids, "command_executor"),
                        !.pc = "loop"])
                /\ Note(c, [hist[c] EXCEPT
                        !.loaded = TRUE,
                        !.loadedHandle = <<DictGet(chrome_ids, "command_executor"),
                                           DictGet(chrome_ids, "session_id")>>])
    /\ UNCHANGED <<store, procs, sessions, reachable, dirState, nextSid, envEvents, start, waitVars>>

\* firefox.py:99-105 and 111-113: the loop head and the condition of the
\* attach.  With both entries of the handle there, the condition reads
\* self.any_chrome_process_exists, which raises AttributeError.
FirefoxLoop(c) ==
    /\ self[c].pc = "loop"
    /\ LET s == self[c]
       IN  IF s.tentativa_atual >= s.attach_retries
           THEN /\ Set(c, [s EXCEPT !.pc = "done", !.result = "False"])
                /\ UNCHANGED hist
           ELSE IF HandleComplete(s)
           THEN /\ Set(c, [s EXCEPT !.attached = FALSE, !.pc = "done", !.result = "raised"])
                /\ Note(c, [hist[c] EXCEPT !.iterations = @ + 1,
                                           !.raisedAt = "any_chrome_process_exists"])
           ELSE /\ Set(c, [s EXCEPT !.attached = FALSE, !.pc = "kill"])
                /\ Note(c, [hist[c] EXCEPT !.iterations = @ + 1])
    /\ UNCHANGED <<store, procs, sessions, reachable, dirState, nextSid, envEvents, start, waitVars>>

\* firefox.py:107-128: the rest of the loop body and what follows a break.
\* taskkill works on an image name: the processes of one name end together
\* or survive together.
FirefoxKill(c) ==
    /\ self[c].pc = "kill"
    /\ LET s == self[c]
       IN  IF ~s.attached
           THEN /\ \E names \in SUBSET {p.name : p \in FirefoxMatched(procs)} :
                      procs' = (procs \ FirefoxMatched(procs))
                                  \cup {p \in FirefoxMatched(procs) : p.name \in names}
                /\ Note(c, [hist[c] EXCEPT
                        !.kills = @ + 1,
                        !.lastEnd = [called |-> TRUE, before |-> procs, after |-> procs',
                                     ret |-> FirefoxEndAllReturn(procs')]])
                /\ Set(c, [s EXCEPT !.tentativa_atual = @ + 1, !.pc = "loop"])
                /\ UNCHANGED store
           ELSE /\ store' = [exists |-> TRUE,
                             text |-> json_dump({Item("command_executor", s.command_executor),
                                                 Item("session_id", s.session_id)})]
                /\ Set(c, [s EXCEPT !.pc = "done", !.result = "True"])
                /\ UNCHANGED <<hist, procs>>
    /\ UNCHANGED <<sessions, reachable, dirState, nextSid, envEvents, start, waitVars>>

InitFirefox ==
    /\ \E r \in 0..MaxRetries :
          self = [c \in Callers |-> IF c = 1 THEN NewObject(r, NoOptions, "match") ELSE Absent]
    /\ hist = [c \in Callers |-> NoHistory]
    /\ store \in StoreChoices
    /\ procs \in FirefoxEnvs
    /\ sessions = {}
    /\ reachable = TRUE
    /\ dirState = "absent"
    /\ nextSid = 2
    /\ envEvents = 0
    /\ start = [store |-> store, procs |-> procs, sessions |-> sessions,
                nextSid |-> nextSid, self |-> self]
    /\ wait = NoWait
    /\ nav = Idle /\ dl = Idle /\ op = Idle

NextFirefox ==
    \/ \E c \in Callers : FirefoxCreateStore(c)
    \/ \E c \in Callers : FirefoxLoad(c)
    \/ \E c \in Callers : FirefoxLoop(c)
    \/ \E c \in Callers : FirefoxKill(c)

SpecFirefox == InitFirefox /\ [][NextFirefox]_vars

\* the store begin() was called on holds JSON text of an object, no JSON or
\* does not exist, and an entry of the handle is missing or empty
IncompleteAtStart ==
    /\ start.store.text.kind # "other"
    /\ ~(Truthy(StartUrl) /\ Truthy(StartSid))

\* C35: ReusableFirefox.begin() never returns True and never writes a
\* session handle: the file holds what the call found, or the empty object
\* the call created.  Nothing is launched and nothing attached to; the only
\* processes that end are firefox-named ones.  Over a store that lacks
\* session_id or command_executor the call ends by returning False, after
\* attach_retries iterations each of which called end_all_driver_processes.
C35_FirefoxNeverAttaches ==
    \A c \in Live :
        LET h == hist[c]
        IN  /\ self[c].result # "True"
            /\ ~self[c].attached
            /\ store = (IF start.store.exists \/ self[c].pc = "start" THEN start.store
                        ELSE [exists |-> TRUE, text |-> json_dump(EmptyDict)])
            /\ h.launches = 0 /\ h.attaches = 0 /\ h.connects = 0
            /\ procs \subseteq start.procs
            /\ \A p \in start.procs \ procs : StrIn(<<"firefox">>, p.name)
            /\ IncompleteAtStart =>
                  /\ h.raisedAt = "-"
                  /\ h.kills = h.iterations \/ self[c].pc = "kill"
                  /\ self[c].pc = "done" =>
                        /\ self[c].result = "False"
                        /\ h.iterations = self[c].attach_retries
                        /\ h.kills = self[c].attach_retries

\* begin() returned False after two iterations that terminated firefox and
\* left the file with its lone session_id
C35_Witness ==
    /\ self[1].pc = "done" /\ self[1].result = "False"
    /\ self[1].attach_retries = 2 /\ hist[1].kills = 2
    /\ start.store.exists /\ StartObj = {Item("session_id", Sid(1))}
    /\ store = start.store
    /\ FirefoxProc \in start.procs /\ FirefoxProc \notin procs
    /\ GeckodriverProc \in procs /\ Notepad \in procs

\* over a file begin() had to create
C35_WitnessCreated ==
    /\ self[1].pc = "done" /\ self[1].result = "False"
    /\ ~start.store.exists /\ store.exists /\ store.text = json_dump(EmptyDict)
    /\ hist[1].kills >= 1

\* over a complete handle the call ends with AttributeError in its first iteration
C35_WitnessComplete ==
    /\ self[1].pc = "done" /\ self[1].result = "raised"
    /\ hist[1].raisedAt = "any_chrome_process_exists"
    /\ hist[1].iterations = 1 /\ hist[1].kills = 0
    /\ StartHandle /\ store = start.store
=============================================================================
